---- MODULE Spec2Model ----
(***************************************************************************)
(* A model of the credential resolvers of sp-rest-proxy: the token cache,  *)
(* the app-only (client secret / certificate) resolvers, the device-code   *)
(* resolver and the interactive-browser resolver.                          *)
(*                                                                         *)
(* Time is a clock `now` in seconds.  A resolver instance is what          *)
(* `new XxxResolver(siteUrl, options)` constructs; getAuth() is called on  *)
(* it, one call at a time.  A request.post is one state ("...Post") in     *)
(* which the request is in flight; the provider's answer is chosen by the  *)
(* action that delivers it.                                                *)
(***************************************************************************)
EXTENDS Naturals, Integers, Sequences, FiniteSets, TLC

VARIABLES
  now,        \* the wall clock (Date.now()), in seconds
  ticks,      \* how often the clock has advanced
  cache,      \* the static TokenCache of every resolver class: kind -> key -> entry
  kind,       \* resolver instance -> the class it was constructed as ("none": not constructed)
  site,       \* resolver instance -> hostname of _siteUrl, a sequence of labels
  opts,       \* resolver instance -> _authOptions
  pc,         \* resolver instance -> where its current getAuth() call stands
  result,     \* resolver instance -> how the promise of the current getAuth() settled
  calls,      \* resolver instance -> getAuth() calls made so far
  stats,      \* resolver instance -> what the current getAuth() call has done so far
  dc,         \* resolver instance -> the device-code poll loop of the current call
  ib,         \* resolver instance -> the interactive flow of the current call
  assertions, \* the client assertions the certificate resolvers have built, in order
  pkce,       \* the interactive flows initiated, in order: their PKCE values and requests
  loop,       \* the poll loop of one pollForToken call, followed round by round
  store,      \* a Cache object exercised on its own (set / get / remove)
  lastSet,    \* key -> the most recent set(k, v, ttl) not followed by remove(k)
  got,        \* the last get(k) on `store`, what it returned, and when
  customResolvers, \* the registry of custom resolver factories, in registration order
  registrations,   \* registerAuthResolver calls made so far
  authMethods,     \* the registry of auth methods, in registration order
  lastCall         \* the last resolve, getAuthMethod or registerAuthMethod call
                   \* and what it did

vars == <<now, ticks, cache, kind, site, opts, pc, result, calls, stats, dc, ib,
          assertions, pkce, loop,
          store, lastSet, got, customResolvers, registrations,
          authMethods, lastCall>>

wireVars == <<assertions, pkce, loop>>
resolverVars == <<cache, kind, site, opts, pc, result, calls, stats, dc, ib, wireVars>>
storeVars == <<store, lastSet, got>>
registryVars == <<customResolvers, registrations, authMethods, lastCall>>

(***************************************************************************)
(* Bounds of the model                                                     *)
(***************************************************************************)
\* the clock advances at most this often
MaxTicks == 3
\* getAuth() calls per resolver instance
MaxCalls == 2
\* poll requests of one device-code poll loop
MaxPolls == 3
\* registerAuthResolver calls
MaxFactories == 2
\* requests one http server handles
MaxRequests == 2
\* tokens in one string of scopes, and strings in an array of scopes
MaxScopes == 2
\* interactive flows initiated in one process
MaxFlows == 3

(***************************************************************************)
(* Program constants                                                       *)
(***************************************************************************)
\* Math.max(expires_in - 300, 60): the safety margin and the floor
TtlMargin == 300
TtlFloor == 60
\* response.expires_in || 3599
DefaultExpiresIn == 3599
\* 90 * 24 * 60 * 60
RefreshTtl == 7776000
\* (deviceCodeResponse.interval || 5), and interval + 5000 ms on slow_down
DefaultInterval == 5
SlowDownExtra == 5
\* setTimeout(..., 5 * 60 * 1000)
InteractiveTimeout == 300
\* createClientAssertion: exp = now + 3600, nbf = now - 300
AssertionLifetime == 3600
AssertionSkew == 300

Absent == "absent"

Resolvers == {"r1", "r2"}
Kinds == {"appOnlySecret", "appOnlyCert", "deviceCode", "interactive"}
AppKinds == {"appOnlySecret", "appOnlyCert"}
UserKinds == {"deviceCode", "interactive"}

Max(a, b) == IF a >= b THEN a ELSE b

(***************************************************************************)
(* utils/Cache: get / set / remove with an expiry per entry                *)
(***************************************************************************)
\* is the entry of key k there and not yet expired at time t
LiveAtExpiry(c, k, t) == k \in DOMAIN c /\ t <= c[k].expiresAt
Live(c, k, t) == k \in DOMAIN c /\ t < c[k].expiresAt

\* what get(k) returns at time t
CacheGet(c, k, t) == IF Live(c, k, t) THEN c[k].value ELSE Absent

\* the cache after get(k) at time t: an expired entry is dropped
CacheAfterGet(c, k, t) ==
  IF k \in DOMAIN c /\ ~Live(c, k, t)
    THEN [x \in DOMAIN c \ {k} |-> c[x]]
    ELSE c

\* the cache after set(k, v, ttl) at time t
CacheSetOnce(c, k, v, ttl, t) ==
  [x \in DOMAIN c \cup {k} |->
     IF x \in DOMAIN c THEN c[x] ELSE [value |-> v, expiresAt |-> t + ttl]]
CacheSet(c, k, v, ttl, t) ==
  [x \in DOMAIN c \cup {k} |->
     IF x = k THEN [value |-> v, expiresAt |-> t + ttl] ELSE c[x]]

\* the cache after remove(k)
CacheRemoveAll(c, k) == [x \in {} |-> c[x]]
CacheRemove(c, k) == [x \in DOMAIN c \ {k} |-> c[x]]

EmptyCache == [x \in {} |-> 0]

(***************************************************************************)
(* Inputs: site hosts, descriptors, and what the identity provider answers *)
(***************************************************************************)
Hosts == { <<"contoso", "sharepoint", "com">> }
ClientIds == {"app1"}
Tokens == {"T1", "T2"}
RefreshTokens == {"R1", "R2"}
\* expires_in of a client-credentials token response (the provider may send
\* any number), and of a token response of the user flows
ExpiresInValues == {0, 30, 120, 3600}
UserExpiresInValues == {120, 3600}
\* expires_in and interval of a device-code response (0: no interval given)
DeviceExpiresInValues == {10, 900}
IntervalValues == {0, 10}
\* an `error` of a token response that is not a polling state
TerminalErrors == {"invalid_grant"}
TransientErrors == {"authorization_pending", "slow_down"}

\* the clock advances in steps of these sizes, chosen to reach the timers and
\* expiries of the resolver class under study
TickSteps(k) ==
  CASE k = "deviceCode" -> {5, 60}
    [] k = "interactive" -> {300}
    [] OTHER -> {30, 60}

\* labels joined by dots: the hostname as a string
RECURSIVE JoinDots(_)
JoinDots(labels) ==
  IF Len(labels) = 0 THEN ""
  ELSE IF Len(labels) = 1 THEN labels[1]
  ELSE labels[1] \o "." \o JoinDots(Tail(labels))

\* hostname.split('.sharepoint.com')[0] + '.sharepoint.com'
TenantDomain(host) ==
  LET cut == {i \in 2..Len(host) - 1 : host[i] = "sharepoint" /\ host[i + 1] = "com"}
  IN  IF cut = {} THEN host \o <<"sharepoint", "com">>
      ELSE LET i == CHOOSE i \in cut : \A j \in cut : i <= j
           IN  SubSeq(host, 1, i - 1) \o <<"sharepoint", "com">>

\* `Bearer ${token}`
Bearer(token) == "Bearer " \o token

\* the key under which a resolver of class k, constructed for the site with
\* hostname host and the options o, caches its access token
CacheKeyOf(k, host, o) ==
  CASE k = "appOnlySecret" ->
         JoinDots(host) \o "@" \o o.clientSecret \o "@" \o o.clientId
    [] k = "appOnlyCert" ->
         JoinDots(host) \o "@" \o o.pfxCertificatePath \o "@" \o o.clientId
    [] k = "deviceCode" ->
         JoinDots(host) \o "@" \o o.clientId
    [] k = "interactive" ->
         JoinDots(TenantDomain(host)) \o "@" \o o.clientId \o ":interactive"

\* the key under which resolver r caches its access token
CacheKey(r) == CacheKeyOf(kind[r], site[r], opts[r])

\* `${cacheKey}:refresh`
RefreshKey(key) == key \o ":refresh"

\* Math.max(expires_in - 300, 60)
AccessTtl(expiresIn) == Max(expiresIn - TtlMargin, TtlFloor)

(***************************************************************************)
(* What request.post returns: the JSON body, whatever the HTTP status, or  *)
(* a rejection when the transport fails or the body is not JSON            *)
(***************************************************************************)
\* a number field the body does not carry
NotGiven == 0 - 1

Body(err, access, refresh, expiresIn) ==
  [type |-> "body", error |-> err, access_token |-> access,
   refresh_token |-> refresh, expires_in |-> expiresIn]

TransportFailure ==
  [type |-> "fail", error |-> Absent, access_token |-> Absent,
   refresh_token |-> Absent, expires_in |-> NotGiven]

ErrorBodies(errors) == {Body(e, Absent, Absent, NotGiven) : e \in errors}

TokenBodies(refreshTokens, expiresIns) ==
  {Body(Absent, t, rt, e) : t \in Tokens, rt \in refreshTokens, e \in expiresIns}

\* answers to the client-credentials token request
AppTokenResponses ==
  {TransportFailure} \cup ErrorBodies({"invalid_client"})
    \cup TokenBodies({Absent}, ExpiresInValues \cup {NotGiven})

\* answers to a refresh_token or authorization_code token request
UserTokenResponses ==
  {TransportFailure} \cup ErrorBodies(TerminalErrors)
    \cup TokenBodies(RefreshTokens \cup {Absent}, UserExpiresInValues)

\* answers to a device_code poll
PollResponses ==
  UserTokenResponses \cup ErrorBodies(TransientErrors)

(***************************************************************************)
(* Bookkeeping of one getAuth() call                                       *)
(***************************************************************************)
NoResult == [status |-> "none", header |-> Absent, error |-> Absent]
Resolved(token) == [status |-> "resolved", header |-> Bearer(token), error |-> Absent]
Rejected(err) == [status |-> "rejected", header |-> Absent, error |-> err]

\* posts: requests sent; writes: access-token cache writes; cached: what the
\* first cache lookup returned; token, given, ttl: the access token of the last
\* token response, its expires_in as the provider gave it, and the TTL it was
\* cached with; prev: the header of this instance's last resolved call
\* refresh: how the refresh grant ended; flows: top-level flows started;
\* catchArmed: the flow was returned from refreshAccessToken's then-handler,
\* so its rejection reaches the catch-handler chained behind; failed: the
\* failure of a flow that ended that way; certificate: whether the PFX was
\* loaded and the assertion signed; answer: what the client-credentials token
\* request was answered with; grant, scope: the grant_type and the scope of
\* the client-credentials token request; used: the refresh token of the refresh
\* grant in flight
NoAnswer == [TransportFailure EXCEPT !.type = "none"]

NoStats == [posts |-> 0, writes |-> 0, cached |-> Absent, token |-> Absent,
            given |-> NotGiven, ttl |-> NotGiven, prev |-> Absent,
            refresh |-> "none", flows |-> 0, catchArmed |-> FALSE,
            failed |-> Absent, certificate |-> "none", answer |-> NoAnswer,
            grant |-> "none", scope |-> << >>, used |-> Absent]

StartStats(r, cachedToken) ==
  [NoStats EXCEPT !.cached = cachedToken,
                  !.prev = IF kind[r] \notin AppKinds THEN Absent
                           ELSE IF result[r].status = "resolved"
                             THEN result[r].header ELSE stats[r].prev]

\* the poll loop: given: the interval the provider gave; interval and
\* expiresAt as pollForToken computes them; wakeAt, delay: the pending
\* setTimeout; polls, transients, last: requests sent, transient answers
\* received, the last answer; late: a poll was sent after expiresAt
NoDc == [given |-> 0, interval |-> 0, expiresAt |-> 0, wakeAt |-> 0,
         delay |-> 0, polls |-> 0, transients |-> 0, last |-> "none",
         late |-> FALSE]

\* the query of a request to the loopback listener: whether it has an error
\* parameter, whether it has a code, and whether its state is the flow's
CallbackQuery(error, code, state) == [error |-> error, code |-> code, state |-> state]
NoCallback == [error |-> FALSE, code |-> FALSE, state |-> "none"]

\* the interactive flow: the http server, whether the browser was opened, the
\* request handler, the 5-minute timer; inflight, the token exchanges of the
\* flow that are awaited; orphan, a token exchange is still awaited by a
\* handler of a flow that has settled; requests and exchanges, the requests
\* the server of the flow has handled and the token exchanges it has sent.
\* For the current call: servers, the http servers listening or about to;
\* callbacks and callback, the requests handled and the query of the last;
\* page, the last page served to a request of a pending flow; timeouts, the
\* timer firings that found the flow pending
NoIb == [listener |-> "none", browser |-> FALSE, handler |-> "none",
         timerAt |-> 0, timer |-> FALSE, inflight |-> 0, orphan |-> FALSE,
         requests |-> 0, exchanges |-> 0,
         servers |-> 0, callbacks |-> 0, callback |-> NoCallback,
         page |-> "none", timeouts |-> 0]

\* what getAuth() starts from: the flow of the previous call is over
NewCall(i) == [i EXCEPT !.servers = 0, !.callbacks = 0, !.callback = NoCallback,
                        !.page = "none", !.timeouts = 0]

Settled(r) == pc[r] \in {"idle", "settled"}

(***************************************************************************)
(* OnlineResolver: the authority host of the hosting environment           *)
(***************************************************************************)
\* UrlHelper.ResolveHostingEnvironment(siteUrl): the environment of the
\* domain suffix, Production when none matches
ResolveHostingEnvironment(host) ==
  LET n == Len(host)
      suffix == <<host[n - 1], host[n]>>
  IN  CASE suffix = <<"sharepoint", "cn">> -> "China"
        [] suffix = <<"sharepoint", "de">> -> "German"
        [] suffix = <<"sharepoint-mil", "us">> -> "USDefence"
        [] suffix = <<"sharepoint", "us">> -> "USGovernment"
        [] OTHER -> "Production"

\* InitEndpointsMappings()
endpointsMappings(environment) ==
  CASE environment = "Production" -> "login.microsoftonline.com"
    [] environment = "China" -> "login.chinacloudapi.cn"
    [] environment = "German" -> "login.microsoftonline.de"
    [] environment = "USDefence" -> "login.microsoftonline.us"
    [] environment = "USGovernment" -> "login.microsoftonline.us"
    [] OTHER -> Absent

\* getAuthEndpoint(): this.endpointsMappings.get(this.hostingEnvironment) ||
\* 'login.microsoftonline.com'
getAuthEndpoint(host) ==
  LET mapped == endpointsMappings(ResolveHostingEnvironment(host))
  IN  IF mapped = Absent THEN "login.microsoftonline.com" ELSE mapped

(***************************************************************************)
(* OnlineResolver: the scopes                                              *)
(***************************************************************************)
\* Scopes.  A string of scopes is modelled by the sequence of its
\* space-separated tokens, join(' ') by concatenation; the custom scopes are
\* absent, one string, or an array of strings.  The value of the custom scopes
\* is kept as a sequence of strings in each form: empty, the one string, the
\* elements of the array.
ScopeTokens == {"offline_access", "User.Read"}

RECURSIVE SeqsUpTo(_, _)
SeqsUpTo(S, n) ==
  IF n = 0 THEN { << >> }
  ELSE LET shorter == SeqsUpTo(S, n - 1)
       IN  shorter \cup {Append(q, x) : q \in shorter, x \in S}

ScopeStrings == SeqsUpTo(ScopeTokens, MaxScopes)

CustomScopes ==
  {[form |-> "absent", value |-> << >>]}
    \cup {[form |-> "string", value |-> <<str>>] : str \in ScopeStrings}
    \cup {[form |-> "array", value |-> arr] : arr \in SeqsUpTo(ScopeStrings, MaxScopes)}

\* `https://${tenantDomain}/.default`, one token
DefaultScope(host) == "https://" \o JoinDots(TenantDomain(host)) \o "/.default"

\* Array.from(new Set(strings)): the first occurrence of each string
RECURSIVE Dedupe(_)
Dedupe(strings) ==
  IF Len(strings) = 0 THEN << >>
  ELSE LET front == Dedupe(SubSeq(strings, 1, Len(strings) - 1))
           last == strings[Len(strings)]
       IN  IF \E i \in 1..Len(front) : front[i] = last THEN front
           ELSE Append(front, last)

\* strings.join(' ')
RECURSIVE JoinSpaces(_)
JoinSpaces(strings) ==
  IF Len(strings) = 0 THEN << >> ELSE Head(strings) \o JoinSpaces(Tail(strings))

\* if (customScopes): an empty string is falsy, an empty array is not
Truthy(customScopes) ==
  \/ customScopes.form = "array"
  \/ customScopes.form = "string" /\ Len(customScopes.value[1]) > 0

\* buildScopes(customScopes, includeOfflineAccess)
buildScopes(host, customScopes, includeOfflineAccess) ==
  LET defaultScopes ==
        IF includeOfflineAccess THEN << <<DefaultScope(host)>>, <<"offline_access">> >>
        ELSE << <<DefaultScope(host)>> >>
      \* Array.isArray(customScopes) ? customScopes : [customScopes]
      customScopesArray == customScopes.value
  IN  IF Truthy(customScopes)
        THEN JoinSpaces(Dedupe(defaultScopes \o customScopesArray))
        ELSE JoinSpaces(defaultScopes)

(***************************************************************************)
(* OnlineAppOnlyCredentials: client secret, and certificate                *)
(***************************************************************************)
\* response.expires_in || 3599
ExpiresInOrDefault(expiresIn) ==
  IF expiresIn = NotGiven \/ expiresIn = 0 THEN DefaultExpiresIn ELSE expiresIn

\* the token request is sent unless loading the PFX, extracting the key or
\* signing the assertion threw, which the catch block turns into a rejection
SendsTokenRequestAnyway(loads) == TRUE
SendsTokenRequest(loads) == loads

\* response && response.access_token
HasAccessTokenIfBody(response) == response.type = "body"
HasAccessToken(response) == response.type = "body" /\ response.access_token # Absent

\* TokenCache.get(cacheKey) in getAuth()
\* crypto.randomUUID(), drawn after `drawn` earlier draws: the values the
\* generator returns are taken to be pairwise distinct
randomUUIDRepeated(drawn) == 1
randomUUID(drawn) == drawn + 1

\* createClientAssertion(clientId, tenantId, privateKey, certThumbprint) at
\* time t, for the site with hostname host: the header and the payload that
\* are signed
createClientAssertion(clientId, tenantId, certThumbprint, host, t, drawn) ==
  LET authEndpoint == getAuthEndpoint(host)
      audience == "https://" \o authEndpoint \o "/" \o tenantId \o "/v2.0"
  IN  [header |-> [alg |-> "RS256", typ |-> "JWT", x5t |-> certThumbprint],
       payload |-> [aud |-> audience, exp |-> t + AssertionLifetime,
                    iss |-> clientId, sub |-> clientId,
                    jti |-> randomUUID(drawn), nbf |-> t - AssertionSkew]]

\* the scope parameter of the token request: `https://${sharePointHostname}/.default`
\* (client secret), this.buildScopes([], false) (certificate)
AppOnlyScopeWithOfflineAccess(r) ==
  buildScopes(site[r], [form |-> "array", value |-> << >>], TRUE)
AppOnlyScope(r) ==
  IF kind[r] = "appOnlySecret"
    THEN <<"https://" \o JoinDots(site[r]) \o "/.default">>
    ELSE buildScopes(site[r], [form |-> "array", value |-> << >>], FALSE)

AppOnlyCachedTokenUnkeyed(r) == Absent
AppOnlyCachedToken(r) == CacheGet(cache[kind[r]], CacheKey(r), now)

\* getAuth(): the cached token, or the token request.  The certificate
\* resolver loads the PFX and signs the assertion first, which may throw.
AppOnlyGetAuth(r) ==
  /\ kind[r] \in AppKinds
  /\ Settled(r)
  /\ calls[r] < MaxCalls
  /\ LET key == CacheKey(r)
         cachedToken == AppOnlyCachedToken(r)
     IN  /\ cache' = [cache EXCEPT ![kind[r]] = CacheAfterGet(@, key, now)]
         /\ calls' = [calls EXCEPT ![r] = @ + 1]
         /\ IF cachedToken # Absent
              THEN /\ pc' = [pc EXCEPT ![r] = "settled"]
                   /\ result' = [result EXCEPT ![r] = Resolved(cachedToken)]
                   /\ stats' = [stats EXCEPT ![r] = StartStats(r, cachedToken)]
                   /\ UNCHANGED assertions
              ELSE \E certificateLoads \in
                        IF kind[r] = "appOnlyCert" THEN BOOLEAN ELSE {TRUE} :
                     LET st == [StartStats(r, Absent) EXCEPT !.certificate =
                                  IF kind[r] # "appOnlyCert" THEN "none"
                                  ELSE IF certificateLoads THEN "loaded" ELSE "failed"]
                     IN  IF SendsTokenRequest(certificateLoads)
                           THEN /\ pc' = [pc EXCEPT ![r] = "tokenPost"]
                                /\ result' = [result EXCEPT ![r] = NoResult]
                                /\ stats' = [stats EXCEPT ![r] =
                                     [st EXCEPT !.posts = 1,
                                                !.grant = "client_credentials",
                                                !.scope = AppOnlyScope(r)]]
                                /\ assertions' =
                                     IF kind[r] = "appOnlyCert" /\ certificateLoads
                                       THEN Append(assertions,
                                              createClientAssertion(
                                                opts[r].clientId, opts[r].tenantId,
                                                opts[r].shaThumbprint, site[r], now,
                                                Len(assertions)))
                                       ELSE assertions
                           ELSE /\ pc' = [pc EXCEPT ![r] = "settled"]
                                /\ result' = [result EXCEPT ![r] =
                                     Rejected("Error loading certificate or creating JWT")]
                                /\ stats' = [stats EXCEPT ![r] = st]
                                /\ UNCHANGED assertions
  /\ UNCHANGED <<now, ticks, kind, site, opts, pkce, loop, dc, ib, storeVars, registryVars>>

\* the token request is answered
AppOnlyTokenResponse(r) ==
  /\ kind[r] \in AppKinds
  /\ pc[r] = "tokenPost"
  /\ \E response \in AppTokenResponses :
       IF HasAccessToken(response)
         THEN LET expiresIn == ExpiresInOrDefault(response.expires_in)
                  expirationSeconds == AccessTtl(expiresIn)
              IN  /\ cache' = [cache EXCEPT ![kind[r]] =
                        CacheSet(@, CacheKey(r), response.access_token,
                                 expirationSeconds, now)]
                  /\ result' = [result EXCEPT ![r] = Resolved(response.access_token)]
                  /\ stats' = [stats EXCEPT ![r].writes = @ + 1,
                                            ![r].token = response.access_token,
                                            ![r].given = response.expires_in,
                                            ![r].ttl = expirationSeconds,
                                            ![r].answer = response]
         ELSE /\ result' = [result EXCEPT ![r] =
                   Rejected(IF response.type = "fail" THEN "transport failure"
                            ELSE "No access token in response")]
              /\ stats' = [stats EXCEPT ![r].answer = response]
              /\ UNCHANGED cache
  /\ pc' = [pc EXCEPT ![r] = "settled"]
  /\ UNCHANGED <<now, ticks, kind, site, opts, wireVars, calls, dc, ib, storeVars, registryVars>>

(***************************************************************************)
(* DeviceCodeResolver and InteractiveBrowserResolver: what they share      *)
(***************************************************************************)
\* answers to the devicecode request: the device code with its expires_in and
\* interval, an error body (which carries neither), or a transport failure
DeviceCodeBody(err, expiresIn, interval) ==
  [type |-> "body", error |-> err, expires_in |-> expiresIn, interval |-> interval]

DeviceCodeResponses ==
  {[type |-> "fail", error |-> Absent, expires_in |-> NotGiven, interval |-> NotGiven]}
    \cup {DeviceCodeBody("invalid_client", NotGiven, NotGiven)}
    \cup {DeviceCodeBody(Absent, e, i) : e \in DeviceExpiresInValues, i \in IntervalValues}

\* the callback requests the loopback listener receives: the provider's error
\* redirect, a request without a code, a code with a foreign state, and the
\* redirect of a successful sign-in
Callbacks ==
  {CallbackQuery(TRUE, FALSE, "flow"), CallbackQuery(FALSE, FALSE, "flow"),
   CallbackQuery(FALSE, TRUE, "other"), CallbackQuery(FALSE, TRUE, "flow")}

\* TokenCache.set of the access token and, if the response has one, of the
\* refresh token
CacheTokensOrForget(c, key, response, t) ==
  LET c1 == CacheSet(c, key, response.access_token,
                     AccessTtl(response.expires_in), t)
  IN  IF response.refresh_token # Absent
        THEN CacheSet(c1, RefreshKey(key), response.refresh_token, RefreshTtl, t)
        ELSE CacheRemove(c1, RefreshKey(key))
CacheTokens(c, key, response, t) ==
  LET expirationSeconds == AccessTtl(response.expires_in)
      c1 == CacheSet(c, key, response.access_token, expirationSeconds, t)
  IN  IF response.refresh_token # Absent
        THEN CacheSet(c1, RefreshKey(key), response.refresh_token, RefreshTtl, t)
        ELSE c1

\* TokenCache.remove(`${cacheKey}:refresh`)
RefreshEvictNothing(c, key) == c
RefreshEvict(c, key) == CacheRemove(c, RefreshKey(key))

\* TokenCache.get(cacheKey) in getAuth()
UserCachedToken(r) == CacheGet(cache[kind[r]], CacheKey(r), now)

\* TokenCache.get(`${cacheKey}:refresh`) in getAuth(), on the cache c the
\* first lookup left
UserCachedRefreshTokenIgnored(r, c) == Absent
UserCachedRefreshToken(r, c) == CacheGet(c, RefreshKey(CacheKey(r)), now)

\* a token response was cached and the call resolves with it
TokenStats(st, response) ==
  [st EXCEPT !.writes = @ + 1,
             !.given = response.expires_in,
             !.ttl = AccessTtl(response.expires_in),
             !.answer = response]

\* server.listen(port, () => this.openBrowser(authUrl)): the call returns
\* with the server not yet bound and the browser not yet opened
ListenAndOpenBrowser(i) ==
  [i EXCEPT !.listener = "binding", !.browser = TRUE, !.servers = @ + 1,
            !.requests = 0, !.exchanges = 0]
Listen(i) ==
  [i EXCEPT !.listener = "binding", !.browser = FALSE, !.servers = @ + 1,
            !.requests = 0, !.exchanges = 0]

\* the promise of the flow settles: the handlers that still await a token
\* exchange go on, and their resolve or reject does nothing; so does the
\* timer, which is never cleared.  One of the exchanges still awaited is
\* followed; the others are taken to fail, which changes nothing
FlowOver(i, awaited) ==
  [i EXCEPT !.handler = "done", !.inflight = 0,
            !.orphan = @ \/ awaited > 0,
            !.timer = FALSE, !.timerAt = 0]

\* server.close(): no further connection is accepted; closing a server that
\* is closed already changes nothing
ServerCloseForgotten(i) == i
ServerClose(i) ==
  IF i.listener \in {"binding", "open"}
    THEN [i EXCEPT !.listener = "closed", !.servers = @ - 1]
    ELSE i

\* the start of a top-level flow.  initiateDeviceCodeFlow posts to the
\* devicecode endpoint; initiateInteractiveBrowserFlow creates the http
\* server, calls listen and arms the 5-minute timer.
StartFlow(r, st, armed, dcBase, ibBase) ==
  /\ stats' = [stats EXCEPT ![r] =
       [st EXCEPT !.flows = @ + 1,
                  !.catchArmed = armed,
                  !.posts = IF kind[r] = "deviceCode" THEN @ + 1 ELSE @]]
  /\ IF kind[r] = "deviceCode"
       THEN /\ pc' = [pc EXCEPT ![r] = "devicePost"]
            /\ dc' = [dc EXCEPT ![r] = [NoDc EXCEPT !.late = dcBase.late,
                                                    !.last = dcBase.last]]
            /\ ib' = [ib EXCEPT ![r] = ibBase]
       ELSE /\ pc' = [pc EXCEPT ![r] = "interactive"]
            /\ dc' = [dc EXCEPT ![r] = dcBase]
            /\ ib' = [ib EXCEPT ![r] =
                 [Listen(ibBase) EXCEPT !.handler = "none",
                                        !.timerAt = now + InteractiveTimeout,
                                        !.timer = TRUE]]

\* the promise of a top-level flow rejects.  A flow that getAuth() or the
\* catch-handler of refreshAccessToken returned rejects getAuth(); a flow that
\* the then-handler of refreshAccessToken returned rejects the promise the
\* catch-handler is chained to, which evicts the refresh token and initiates
\* the flow again.
FlowRejected(r, err, st, dcBase, ibBase) ==
  IF st.catchArmed
    THEN /\ cache' = [cache EXCEPT ![kind[r]] = RefreshEvict(@, CacheKey(r))]
         /\ StartFlow(r, [st EXCEPT !.failed = err], FALSE, dcBase, ibBase)
         /\ UNCHANGED result
    ELSE /\ pc' = [pc EXCEPT ![r] = "settled"]
         /\ result' = [result EXCEPT ![r] = Rejected(err)]
         /\ stats' = [stats EXCEPT ![r] = st]
         /\ dc' = [dc EXCEPT ![r] = dcBase]
         /\ ib' = [ib EXCEPT ![r] = ibBase]
         /\ UNCHANGED cache

\* the promise of a top-level flow resolves, after caching the tokens
FlowResolved(r, response, dcBase, ibBase) ==
  /\ cache' = [cache EXCEPT ![kind[r]] = CacheTokens(@, CacheKey(r), response, now)]
  /\ pc' = [pc EXCEPT ![r] = "settled"]
  /\ result' = [result EXCEPT ![r] = Resolved(response.access_token)]
  /\ stats' = [stats EXCEPT ![r] = TokenStats(@, response)]
  /\ dc' = [dc EXCEPT ![r] = dcBase]
  /\ ib' = [ib EXCEPT ![r] = ibBase]

\* getAuth(): the cached access token, else the refresh grant with the cached
\* refresh token, else the top-level flow
UserGetAuth(r) ==
  /\ kind[r] \in UserKinds
  /\ Settled(r)
  /\ calls[r] < MaxCalls
  /\ calls' = [calls EXCEPT ![r] = @ + 1]
  /\ LET key == CacheKey(r)
         cachedToken == UserCachedToken(r)
         c1 == CacheAfterGet(cache[kind[r]], key, now)
         cachedRefreshToken == UserCachedRefreshToken(r, c1)
         c2 == CacheAfterGet(c1, RefreshKey(key), now)
     IN  IF cachedToken # Absent
           THEN /\ cache' = [cache EXCEPT ![kind[r]] = c1]
                /\ pc' = [pc EXCEPT ![r] = "settled"]
                /\ result' = [result EXCEPT ![r] = Resolved(cachedToken)]
                /\ stats' = [stats EXCEPT ![r] = StartStats(r, cachedToken)]
                /\ ib' = [ib EXCEPT ![r] = NewCall(@)]
                /\ UNCHANGED dc
           ELSE /\ cache' = [cache EXCEPT ![kind[r]] = c2]
                /\ result' = [result EXCEPT ![r] = NoResult]
                /\ IF cachedRefreshToken # Absent
                     THEN /\ pc' = [pc EXCEPT ![r] = "refreshPost"]
                          /\ stats' = [stats EXCEPT ![r] =
                               [StartStats(r, Absent) EXCEPT !.posts = 1,
                                                             !.refresh = "sent",
                                                             !.used = cachedRefreshToken]]
                          /\ ib' = [ib EXCEPT ![r] = NewCall(@)]
                          /\ UNCHANGED dc
                     ELSE StartFlow(r, StartStats(r, Absent), FALSE, dc[r],
                                    NewCall(ib[r]))
  /\ UNCHANGED <<now, ticks, kind, site, opts, wireVars, storeVars, registryVars>>

\* refreshAccessToken: the refresh grant is answered
RefreshResponse(r) ==
  /\ kind[r] \in UserKinds
  /\ pc[r] = "refreshPost"
  /\ \E response \in UserTokenResponses :
       IF response.type = "fail"
         THEN \* the catch-handler
              /\ cache' = [cache EXCEPT ![kind[r]] = RefreshEvict(@, CacheKey(r))]
              /\ StartFlow(r, [stats[r] EXCEPT !.refresh = "failed", !.used = Absent],
                           FALSE, dc[r], ib[r])
              /\ UNCHANGED result
         ELSE IF response.error # Absent
           THEN \* the then-handler, response.error
                /\ cache' = [cache EXCEPT ![kind[r]] = RefreshEvict(@, CacheKey(r))]
                /\ StartFlow(r, [stats[r] EXCEPT !.refresh = "error", !.used = Absent],
                             TRUE, dc[r], ib[r])
                /\ UNCHANGED result
           ELSE /\ cache' = [cache EXCEPT ![kind[r]] =
                     CacheTokens(@, CacheKey(r), response, now)]
                /\ pc' = [pc EXCEPT ![r] = "settled"]
                /\ result' = [result EXCEPT ![r] = Resolved(response.access_token)]
                /\ stats' = [stats EXCEPT ![r] =
                     TokenStats([@ EXCEPT !.refresh = "ok", !.used = Absent], response)]
                /\ UNCHANGED <<dc, ib>>
  /\ UNCHANGED <<now, ticks, kind, site, opts, wireVars, calls, storeVars, registryVars>>

(***************************************************************************)
(* DeviceCodeResolver: initiateDeviceCodeFlow and pollForToken             *)
(***************************************************************************)
\* Date.now() > expiresAt, which is false when expiresAt is NaN
Expired(t, expiresAt) == expiresAt # NotGiven /\ t > expiresAt

\* (deviceCodeResponse.interval || 5)
IntervalOf(given) == IF given = NotGiven \/ given = 0 THEN DefaultInterval ELSE given

\* the delay of the setTimeout that follows a transient answer
PollDelay(interval, error) ==
  IF error = "slow_down" THEN interval + SlowDownExtra ELSE interval

\* response.error === 'authorization_pending' or 'slow_down': poll again
PollIsTransientPendingOnly(error) == error = "authorization_pending"
PollIsTransient(error) == error \in TransientErrors

\* poll(): reject when the device code has expired, else send the request
Poll(r, st, d) ==
  IF Expired(now, d.expiresAt)
    THEN FlowRejected(r, "Device code expired. Please try again.", st, d, ib[r])
    ELSE /\ pc' = [pc EXCEPT ![r] = "pollPost"]
         /\ dc' = [dc EXCEPT ![r] =
              [d EXCEPT !.polls = @ + 1,
                        !.late = @ \/ (d.expiresAt # NotGiven /\ now > d.expiresAt)]]
         /\ stats' = [stats EXCEPT ![r] = [st EXCEPT !.posts = @ + 1]]
         /\ UNCHANGED <<cache, result, ib>>

\* the devicecode request is answered: pollForToken computes the interval and
\* the deadline and polls at once
DeviceCodeResponse(r) ==
  /\ kind[r] = "deviceCode"
  /\ pc[r] = "devicePost"
  /\ \E response \in DeviceCodeResponses :
       IF response.type = "fail"
         THEN FlowRejected(r, "transport failure", stats[r], dc[r], ib[r])
         ELSE LET interval == IntervalOf(response.interval)
                  expiresAt == IF response.expires_in = NotGiven
                                 THEN NotGiven ELSE now + response.expires_in
              IN  Poll(r, stats[r],
                       [dc[r] EXCEPT !.given = response.interval,
                                     !.interval = interval,
                                     !.expiresAt = expiresAt])
  /\ UNCHANGED <<now, ticks, kind, site, opts, wireVars, calls, storeVars, registryVars>>

\* a poll request is answered
PollResponse(r) ==
  /\ kind[r] = "deviceCode"
  /\ pc[r] = "pollPost"
  /\ \E response \in PollResponses :
       IF response.type = "fail"
         THEN FlowRejected(r, "transport failure", stats[r],
                           [dc[r] EXCEPT !.last = "fail"], ib[r])
         ELSE IF PollIsTransient(response.error)
           THEN LET delay == PollDelay(dc[r].interval, response.error)
                IN  /\ pc' = [pc EXCEPT ![r] = "pollWait"]
                    /\ dc' = [dc EXCEPT ![r].wakeAt = now + delay,
                                        ![r].delay = delay,
                                        ![r].transients = @ + 1,
                                        ![r].last = response.error]
                    /\ UNCHANGED <<cache, result, stats, ib>>
           ELSE IF response.error # Absent
             THEN FlowRejected(r, "Authentication failed", stats[r],
                               [dc[r] EXCEPT !.last = response.error], ib[r])
             ELSE FlowResolved(r, response, [dc[r] EXCEPT !.last = "token"], ib[r])
  /\ UNCHANGED <<now, ticks, kind, site, opts, wireVars, calls, storeVars, registryVars>>

\* the setTimeout of the poll loop fires
PollTimer(r) ==
  /\ kind[r] = "deviceCode"
  /\ pc[r] = "pollWait"
  /\ now >= dc[r].wakeAt
  /\ dc[r].polls < MaxPolls \/ Expired(now, dc[r].expiresAt)
  /\ Poll(r, stats[r], dc[r])
  /\ UNCHANGED <<now, ticks, kind, site, opts, wireVars, calls, storeVars, registryVars>>

(***************************************************************************)
(* DeviceCodeResolver: the poll loop of one pollForToken call              *)
(*                                                                         *)
(* The loop is followed for as many rounds as it takes: the promise, the   *)
(* poll requests in flight and the pending setTimeout.  Its clock is the   *)
(* time since pollForToken read Date.now(); poll() only compares the clock *)
(* with the deadline, so all times past every deadline a provider gives    *)
(* are taken as one.                                                       *)
(***************************************************************************)
\* the longest expires_in of a device-code response
LastDeadline ==
  CHOOSE e \in DeviceExpiresInValues : \A f \in DeviceExpiresInValues : f <= e

\* the clock d seconds after t
Elapse(t, d) == IF t + d > LastDeadline THEN LastDeadline + 1 ELSE t + d

\* the seconds a poll request takes to be answered
Latencies == {0, 1}

NoLoop == [started |-> FALSE, expires_in |-> NotGiven, interval |-> 0,
           elapsed |-> 0, delay |-> 0, timer |-> FALSE, inflight |-> 0,
           settled |-> "pending"]

\* resolve or reject of the promise pollForToken returns: it settles once
LoopSettle(l, how) == [l EXCEPT !.settled = IF @ = "pending" THEN how ELSE @]

\* poll(): reject when the device code has expired, else send the request
LoopPoll(l) ==
  IF Expired(l.elapsed, l.expires_in)
    THEN LoopSettle(l, "expired")
    ELSE [l EXCEPT !.inflight = @ + 1]

\* pollForToken(deviceCodeResponse, cacheKey), called with the body the
\* devicecode request was answered with: the interval, the deadline, and the
\* first poll()
PollForToken ==
  /\ ~loop.started
  /\ \E response \in DeviceCodeResponses :
       /\ response.type = "body"
       /\ loop' = LoopPoll([NoLoop EXCEPT !.started = TRUE,
                                          !.interval = IntervalOf(response.interval),
                                          !.expires_in = response.expires_in])
  /\ UNCHANGED <<now, ticks, cache, kind, site, opts, pc, result, calls, stats,
                 dc, ib, assertions, pkce, storeVars, registryVars>>

\* a poll request is answered: the then-handler and the catch-handler
LoopAnswered ==
  /\ loop.inflight > 0
  /\ \E response \in PollResponses, latency \in Latencies :
       LET l == [loop EXCEPT !.inflight = @ - 1,
                             !.elapsed = Elapse(@, latency)]
       IN  loop' =
             IF response.type = "fail"
               THEN LoopSettle(l, "rejected")
               ELSE IF PollIsTransient(response.error)
                 THEN [l EXCEPT !.timer = TRUE,
                                !.delay = PollDelay(l.interval, response.error)]
                 ELSE IF response.error # Absent
                   THEN LoopSettle(l, "rejected")
                   ELSE LoopSettle(l, "resolved")
  /\ UNCHANGED <<now, ticks, cache, kind, site, opts, pc, result, calls, stats,
                 dc, ib, assertions, pkce, storeVars, registryVars>>

\* the setTimeout of the loop fires: poll()
LoopTimer ==
  /\ loop.timer
  /\ loop' = LoopPoll([loop EXCEPT !.timer = FALSE,
                                   !.elapsed = Elapse(@, loop.delay)])
  /\ UNCHANGED <<now, ticks, cache, kind, site, opts, pc, result, calls, stats,
                 dc, ib, assertions, pkce, storeVars, registryVars>>

(***************************************************************************)
(* InteractiveBrowserResolver: initiateInteractiveBrowserFlow              *)
(*                                                                         *)
(* The 5-minute timer of a flow is never cleared.  When it fires after the *)
(* flow has settled it closes a server that is closed already and rejects  *)
(* a settled promise, which changes nothing; such firings are left out.    *)
(***************************************************************************)
\* the redirect port of r is held by the server of another instance: every
\* instance listens on this.port, '5000' unless the options give redirectPort
PortInUse(r) ==
  \E o \in Resolvers \ {r} : kind[o] = "interactive" /\ ib[o].listener = "open"

\* the process exits: its servers, timers and pending handlers are gone
ProcessExit(i) ==
  [ServerClose(i) EXCEPT !.handler = "done", !.inflight = 0, !.orphan = FALSE,
                         !.timer = FALSE, !.timerAt = 0]

\* the listen callback: the server is bound, the browser is opened
IbListening(r) ==
  /\ kind[r] = "interactive"
  /\ pc[r] = "interactive"
  /\ ib[r].listener = "binding"
  /\ ~PortInUse(r)
  /\ ib' = [ib EXCEPT ![r].listener = "open", ![r].browser = TRUE]
  /\ UNCHANGED <<now, ticks, cache, kind, site, opts, wireVars, pc, result, calls, stats,
                 dc, storeVars, registryVars>>

\* listen fails with EADDRINUSE: the server emits 'error', for which the flow
\* has registered no listener, so the event is thrown as an uncaught
\* exception.  Either the process exits, or a handler the host application
\* has installed for uncaughtException swallows it and the flow stays
\* pending without a listener until its timer fires.
IbListenError(r) ==
  /\ kind[r] = "interactive"
  /\ pc[r] = "interactive"
  /\ ib[r].listener = "binding"
  /\ PortInUse(r)
  /\ \E caught \in BOOLEAN :
       IF caught
         THEN /\ ib' = [ib EXCEPT ![r].listener = "failed", ![r].servers = @ - 1]
              /\ UNCHANGED pc
         ELSE /\ ib' = [o \in Resolvers |->
                        ProcessExit([ib[o] EXCEPT !.listener =
                                       IF o = r THEN "failed" ELSE @,
                                     !.servers = IF o = r THEN @ - 1 ELSE @])]
              /\ pc' = [o \in Resolvers |-> "exited"]
  /\ UNCHANGED <<now, ticks, cache, kind, site, opts, wireVars, result, calls, stats,
                 dc, storeVars, registryVars>>

\* the request handler receives a request: the server handles every request
\* that arrives while it is listening, also while a token exchange of an
\* earlier request is awaited
IbCallback(r) ==
  /\ kind[r] = "interactive"
  /\ pc[r] = "interactive"
  /\ ib[r].listener = "open"
  /\ ib[r].requests < MaxRequests
  /\ \E callback \in Callbacks :
       LET received == [ib[r] EXCEPT !.callbacks = @ + 1, !.callback = callback,
                                     !.requests = @ + 1]
       IN  IF callback.error
             THEN FlowRejected(r, "Authentication failed", stats[r], dc[r],
                    ServerClose(FlowOver([received EXCEPT !.page = "Authentication Failed"],
                                         ib[r].inflight)))
             ELSE IF ~callback.code \/ callback.state # "flow"
               THEN FlowRejected(r, "Invalid authentication response", stats[r], dc[r],
                      ServerClose(FlowOver([received EXCEPT !.page = "Invalid Response"],
                                           ib[r].inflight)))
               ELSE /\ ib' = [ib EXCEPT ![r] =
                         [received EXCEPT !.handler = "exchanging",
                                          !.inflight = @ + 1,
                                          !.exchanges = @ + 1]]
                    /\ stats' = [stats EXCEPT ![r].posts = @ + 1]
                    /\ UNCHANGED <<cache, pc, result, dc>>
  /\ UNCHANGED <<now, ticks, kind, site, opts, wireVars, calls, storeVars, registryVars>>

\* exchangeCodeForToken is answered while the flow is pending
IbExchangeResponse(r) ==
  /\ kind[r] = "interactive"
  /\ pc[r] = "interactive"
  /\ ib[r].handler = "exchanging"
  /\ \E response \in UserTokenResponses :
       LET closed(page) == ServerClose(FlowOver([ib[r] EXCEPT !.page = page],
                                                ib[r].inflight - 1))
       IN  IF response.type = "fail"
             THEN FlowRejected(r, "transport failure", stats[r], dc[r],
                               closed("Authentication Error"))
             ELSE IF response.error # Absent
               THEN FlowRejected(r, "Token exchange failed", stats[r], dc[r],
                                 closed("Authentication Error"))
               ELSE FlowResolved(r, response, dc[r],
                                 closed("Authentication Successful!"))
  /\ UNCHANGED <<now, ticks, kind, site, opts, wireVars, calls, storeVars, registryVars>>

\* the 5-minute timer fires while the flow is pending: the server is closed
\* and the flow rejects; a token exchange in flight stays in flight
IbTimeout(r) ==
  /\ kind[r] = "interactive"
  /\ pc[r] = "interactive"
  /\ ib[r].timer
  /\ now >= ib[r].timerAt
  /\ FlowRejected(r, "Authentication timeout", stats[r], dc[r],
                  ServerClose(FlowOver([ib[r] EXCEPT !.timer = FALSE,
                                                     !.timeouts = @ + 1],
                                       ib[r].inflight)))
  /\ UNCHANGED <<now, ticks, kind, site, opts, wireVars, calls, storeVars, registryVars>>

\* exchangeCodeForToken is answered after its flow has settled: the handler
\* goes on and caches the tokens; its server.close() finds the server closed
\* and its resolve or reject does nothing
IbOrphanResponse(r) ==
  /\ kind[r] = "interactive"
  /\ ib[r].orphan
  /\ \E response \in UserTokenResponses :
       IF response.type = "body" /\ response.error = Absent
         THEN cache' = [cache EXCEPT ![kind[r]] =
                CacheTokens(@, CacheKey(r), response, now)]
         ELSE UNCHANGED cache
  /\ ib' = [ib EXCEPT ![r].orphan = FALSE]
  /\ UNCHANGED <<now, ticks, kind, site, opts, wireVars, pc, result, calls, stats, dc,
                 storeVars, registryVars>>

(***************************************************************************)
(* InteractiveBrowserResolver: the PKCE values of its flows                *)
(*                                                                         *)
(* Every call of initiateInteractiveBrowserFlow is one entry of `pkce`:    *)
(* the constants of its closure (codeVerifier, state, authUrl), its http   *)
(* server, and the token exchanges its request handler has sent.           *)
(***************************************************************************)
\* randomBytes(n), drawn after `drawn` earlier draws: the values the
\* generator returns are taken to be pairwise distinct
randomBytesRepeated(drawn) == 1
randomBytes(drawn) == drawn + 1

\* randomBytes(32).toString('base64url')
generateCodeVerifier(drawn) == randomBytes(drawn)

\* createHash('sha256').update(verifier).digest('base64url')
generateCodeChallenge(verifier) == <<"sha256", verifier>>

\* the random values drawn so far: a verifier and a state per flow
Drawn == 2 * Len(pkce)

\* the queries of the requests that reach a listener: with an error, without
\* a code, or with a code and some state, that of a flow or one of no flow
PkceQueries ==
  {[error |-> TRUE, code |-> FALSE, state |-> 0],
   [error |-> FALSE, code |-> FALSE, state |-> 0]}
    \cup {[error |-> FALSE, code |-> TRUE, state |-> st] :
            st \in {0} \cup {pkce[i].state : i \in 1..Len(pkce)}}

\* exchangeCodeForToken(code, codeVerifier): the parameters of the request
ExchangeParams(codeVerifier) ==
  [grant_type |-> "authorization_code", code_verifier |-> codeVerifier]

\* initiateInteractiveBrowserFlow(cacheKey) up to server.listen
InitiateInteractiveBrowserFlow ==
  /\ Len(pkce) < MaxFlows
  /\ LET codeVerifier == generateCodeVerifier(Drawn)
         codeChallenge == generateCodeChallenge(codeVerifier)
         state == randomBytes(Drawn + 1)
         authUrl == [state |-> state, code_challenge |-> codeChallenge,
                     code_challenge_method |-> "S256"]
     IN  pkce' = Append(pkce, [codeVerifier |-> codeVerifier, state |-> state,
                               authUrl |-> authUrl, server |-> "listening",
                               requests |-> 0, exchanges |-> << >>,
                               awaited |-> 0, settled |-> "pending"])
  /\ UNCHANGED <<now, ticks, cache, kind, site, opts, pc, result, calls, stats,
                 dc, ib, assertions, loop, storeVars, registryVars>>

\* the promise of the flow settles once
Settle(flow, how) ==
  [flow EXCEPT !.server = "closed",
               !.settled = IF @ = "pending" THEN how ELSE @]

\* the request handler of a flow runs for a request
HandleRequest ==
  /\ \E i \in 1..Len(pkce), query \in PkceQueries :
       LET flow == [pkce[i] EXCEPT !.requests = @ + 1]
       IN  /\ pkce[i].server = "listening"
           /\ pkce[i].requests < MaxRequests
           /\ pkce' = [pkce EXCEPT ![i] =
                IF query.error \/ ~query.code \/ query.state # flow.state
                  THEN Settle(flow, "rejected")
                  ELSE [flow EXCEPT !.exchanges =
                                      Append(@, ExchangeParams(flow.codeVerifier)),
                                    !.awaited = @ + 1]]
  /\ UNCHANGED <<now, ticks, cache, kind, site, opts, pc, result, calls, stats,
                 dc, ib, assertions, loop, storeVars, registryVars>>

\* a token exchange of a flow is answered, with tokens or not
ExchangeAnswered ==
  /\ \E i \in 1..Len(pkce), ok \in BOOLEAN :
       /\ pkce[i].awaited > 0
       /\ pkce' = [pkce EXCEPT ![i] =
            Settle([pkce[i] EXCEPT !.awaited = @ - 1],
                   IF ok THEN "resolved" ELSE "rejected")]
  /\ UNCHANGED <<now, ticks, cache, kind, site, opts, pc, result, calls, stats,
                 dc, ib, assertions, loop, storeVars, registryVars>>

(***************************************************************************)
(* IAuthOptions: the descriptors and their discriminators                  *)
(*                                                                         *)
(* A descriptor is reduced to what the discriminators read: authMethod,    *)
(* the deviceFlow flag, and whether tenantId and clientSecret are defined. *)
(***************************************************************************)
AuthMethodValues ==
  {Absent, "deviceCode", "interactive", "appOnly", "onPremiseAddin",
   "onPremiseUserCredentials", "myCert"}

\* resolve(siteUrl) without options
NoOptions ==
  [present |-> FALSE, authMethod |-> Absent, deviceFlow |-> FALSE,
   tenantId |-> FALSE, clientSecret |-> FALSE]

\* the descriptors resolve is called with: every authMethod with and
\* without a client secret, the legacy deviceFlow flag on descriptors without
\* authMethod or with authMethod 'interactive', and the empty descriptor
AuthOptions ==
  { T \in [present : {TRUE}, authMethod : AuthMethodValues, deviceFlow : BOOLEAN,
            tenantId : BOOLEAN, clientSecret : BOOLEAN] :
      /\ T.deviceFlow => T.authMethod \in {Absent, "interactive"}
      /\ ~T.tenantId => (T.authMethod = Absent /\ ~T.deviceFlow /\ ~T.clientSecret) }

\* the discriminators that read authMethod alone
isDeviceCode(T) == T.authMethod = "deviceCode"
isInteractiveBrowser(T) == T.authMethod = "interactive"
isAppOnlyOnline(T) == T.authMethod = "appOnly"
isOnPremiseAddinOnly(T) == T.authMethod = "onPremiseAddin"
isOnpremiseUserCredentialsNever(T) == FALSE
isOnpremiseUserCredentials(T) == T.authMethod = "onPremiseUserCredentials"

\* the discriminators of IAuthOptions.ts, with the legacy detection
isDeviceCodeLegacy(T) ==
  IF T.authMethod = "deviceCode" THEN TRUE ELSE T.deviceFlow

isInteractiveBrowserLegacy(T) ==
  IF T.authMethod = "interactive" THEN TRUE
  ELSE T.tenantId /\ ~T.deviceFlow /\ ~T.clientSecret

isAppOnlyOnlineLegacy(T) ==
  IF T.authMethod = "appOnly" THEN TRUE
  ELSE T.clientSecret /\ ~T.deviceFlow /\ T.authMethod = Absent

(***************************************************************************)
(* AuthResolverFactory and the custom resolver registry                    *)
(***************************************************************************)
\* what a factory returns for a descriptor it does not handle
Null == "null"
ResolveError == "Error while resolving authentication class"

\* custom factories of the shape `options.authMethod === x ? new X() : null`
\* (examples/customAuthResolver.ts); the second one also claims descriptors
\* that the device-code discriminator matches
Factories ==
  { [name |-> "certFactory", handles |-> {"myCert"}, produces |-> "MyCertResolver"],
    [name |-> "takeOver", handles |-> {"myCert", "deviceCode"},
     produces |-> "TakeOverResolver"] }

\* factory(siteUrl, options)
FactoryResult(factory, T) ==
  IF T.authMethod \in factory.handles THEN factory.produces ELSE Null

\* for (const factory of customResolvers): the factories called from the
\* i-th on, and the resolver of the first that returns one
RECURSIVE TryCustomFrom(_, _, _)
TryCustomFrom(factories, i, T) ==
  IF i > Len(factories)
    THEN [called |-> Len(factories), resolver |-> Null]
    ELSE LET resolver == FactoryResult(factories[i], T)
         IN  IF resolver # Null
               THEN [called |-> i, resolver |-> resolver]
               ELSE TryCustomFrom(factories, i + 1, T)

TryCustomLast(factories, T) ==
  LET claimers == {i \in 1..Len(factories) : FactoryResult(factories[i], T) # Null}
  IN  IF claimers = {} THEN [called |-> Len(factories), resolver |-> Null]
      ELSE LET i == CHOOSE i \in claimers : \A j \in claimers : j <= i
           IN  [called |-> Len(factories), resolver |-> FactoryResult(factories[i], T)]
TryCustom(factories, T) == TryCustomFrom(factories, 1, T)

\* the chain of built-in discriminators of resolve
ResolveBuiltinOnlineOnly(T) ==
  IF isDeviceCode(T) THEN "DeviceCodeResolver"
  ELSE IF isInteractiveBrowser(T) THEN "InteractiveBrowserResolver"
  ELSE IF isAppOnlyOnline(T) THEN "OnlineAppOnlyCredentials"
  ELSE ResolveError
ResolveBuiltin(T) ==
  IF isDeviceCode(T) THEN "DeviceCodeResolver"
  ELSE IF isInteractiveBrowser(T) THEN "InteractiveBrowserResolver"
  ELSE IF isAppOnlyOnline(T) THEN "OnlineAppOnlyCredentials"
  ELSE IF isOnPremiseAddinOnly(T) THEN "OnpremiseAddinOnly"
  ELSE IF isOnpremiseUserCredentials(T) THEN "OnpremiseUserCredentials"
  ELSE ResolveError

\* the chain of the resolve that has no custom registry, over the
\* discriminators with the legacy detection
ResolveBuiltinLegacy(T) ==
  IF isDeviceCodeLegacy(T) THEN "DeviceCodeResolver"
  ELSE IF isInteractiveBrowserLegacy(T) THEN "InteractiveBrowserResolver"
  ELSE IF isAppOnlyOnlineLegacy(T) THEN "OnlineAppOnlyCredentials"
  ELSE ResolveError

\* customResolvers.push(factory)
PushFactoryOnce(factories, factory) ==
  IF \E i \in 1..Len(factories) : factories[i] = factory
    THEN factories ELSE Append(factories, factory)
PushFactory(factories, factory) == Append(factories, factory)

\* no call yet
NoCall == [op |-> "none"]

\* a resolve call.  called: factories called; builtin: the built-in
\* discriminators were evaluated; outcome: the class of the resolver
\* returned, or the error thrown; registered: Len(customResolvers) at the
\* call; repeat: the call before this one had the same options and went
\* through the same resolve ("same": with the same custom registry,
\* "changed": with another); sameOutcome: and returned the same
ResolveRecord(T, legacy, called, builtin, outcome) ==
  LET repeat == lastCall.op = "resolve" /\ lastCall.options = T
                  /\ lastCall.legacy = legacy
  IN  [op |-> "resolve", options |-> T, legacy |-> legacy, called |-> called,
       builtin |-> builtin, outcome |-> outcome,
       registered |-> Len(customResolvers),
       repeat |-> IF ~repeat THEN "no"
                  ELSE IF lastCall.registered = Len(customResolvers)
                    THEN "same" ELSE "changed",
       sameOutcome |-> repeat => lastCall.outcome = outcome]

RegisterAuthResolver ==
  /\ registrations < MaxFactories
  /\ registrations' = registrations + 1
  /\ \E factory \in Factories :
       customResolvers' = PushFactory(customResolvers, factory)
  /\ UNCHANGED <<now, ticks, resolverVars, storeVars, authMethods, lastCall>>

\* AuthResolverFactory.resolve(siteUrl, options)
ResolveWithoutFileConfig ==
  /\ \E T \in AuthOptions \cup {NoOptions} :
       lastCall' =
         LET custom == TryCustom(customResolvers, T)
         IN  IF custom.resolver # Null
               THEN ResolveRecord(T, FALSE, custom.called, FALSE, custom.resolver)
               ELSE ResolveRecord(T, FALSE, custom.called, TRUE, ResolveBuiltin(T))
  /\ UNCHANGED <<now, ticks, resolverVars, storeVars, customResolvers, registrations,
                 authMethods>>
Resolve ==
  /\ \E T \in AuthOptions \cup {NoOptions} :
       lastCall' =
         IF ~T.present
           THEN ResolveRecord(T, FALSE, 0, FALSE, "FileConfig")
           ELSE LET custom == TryCustom(customResolvers, T)
                IN  IF custom.resolver # Null
                      THEN ResolveRecord(T, FALSE, custom.called, FALSE, custom.resolver)
                      ELSE ResolveRecord(T, FALSE, custom.called, TRUE, ResolveBuiltin(T))
  /\ UNCHANGED <<now, ticks, resolverVars, storeVars, customResolvers, registrations,
                 authMethods>>

\* AuthResolverFactory.resolve of the version without a custom registry
ResolveLegacy ==
  /\ \E T \in AuthOptions \cup {NoOptions} :
       lastCall' =
         IF ~T.present
           THEN ResolveRecord(T, TRUE, 0, FALSE, "FileConfig")
           ELSE ResolveRecord(T, TRUE, 0, TRUE, ResolveBuiltinLegacy(T))
  /\ UNCHANGED <<now, ticks, resolverVars, storeVars, customResolvers, registrations,
                 authMethods>>

(***************************************************************************)
(* authResolverRegistry: the auth methods of the configuration wizard      *)
(***************************************************************************)
Method(id, name) == [id |-> id, name |-> name]

\* what find returns when no entry has the id
NoMethod == Method(Absent, Absent)

\* the initial value of authMethods
BuiltinAuthMethods ==
  << Method("interactive", "Interactive Browser"),
     Method("deviceCode", "Device Code Flow"),
     Method("appOnly", "Online App-Only (Certificate)"),
     Method("onPremiseAddin", "On-Premise Add-in Only"),
     Method("onPremiseUserCredentials", "On-Premise User Credentials") >>

\* the methods registerAuthMethod is called with
MethodConfigs ==
  { Method("myCert", "Certificate-Based"), Method("myCert", "Another"),
    Method("customApi", "Custom API Authentication"),
    Method("interactive", "Mine") }

MethodIds == {"interactive", "myCert", "customApi", "unknown"}

\* authMethods.find((m) => m.id === id), from the i-th entry on
RECURSIVE FindFrom(_, _, _)
FindFrom(methods, i, id) ==
  IF i > Len(methods) THEN NoMethod
  ELSE IF methods[i].id = id THEN methods[i]
  ELSE FindFrom(methods, i + 1, id)

getAuthMethod(methods, id) == FindFrom(methods, 1, id)

\* const existing = authMethods.find((m) => m.id === method.id)
existingNone(methods, method) == NoMethod
existing(methods, method) == FindFrom(methods, 1, method.id)

RegisterAuthMethod ==
  /\ \E method \in MethodConfigs :
       IF existing(authMethods, method) # NoMethod
         THEN /\ lastCall' = [op |-> "registerAuthMethod", method |-> method,
                              outcome |-> "skipped"]
              /\ UNCHANGED authMethods
         ELSE /\ authMethods' = Append(authMethods, method)
              /\ lastCall' = [op |-> "registerAuthMethod", method |-> method,
                              outcome |-> "added"]
  /\ UNCHANGED <<now, ticks, resolverVars, storeVars, customResolvers, registrations>>

GetAuthMethod ==
  /\ \E id \in MethodIds :
       lastCall' = [op |-> "getAuthMethod", id |-> id,
                    found |-> getAuthMethod(authMethods, id)]
  /\ UNCHANGED <<now, ticks, resolverVars, storeVars, customResolvers, registrations,
                 authMethods>>

(***************************************************************************)
(* OnlineResolver: the authority host and the scopes                       *)
(***************************************************************************)
\* hostnames of site URLs, as sequences of labels
SiteHosts ==
  { <<"contoso", "sharepoint", "com">>, <<"contoso", "sharepoint", "cn">>,
    <<"contoso", "sharepoint", "de">>, <<"contoso", "sharepoint", "us">>,
    <<"contoso", "sharepoint-mil", "us">>, <<"intranet", "contoso", "local">> }

\* the resolver classes that send requests to the identity provider; the
\* repository has the interactive resolver twice, in AuthResolverFactory.ts
\* and in InteractiveBrowserResolver.ts
RequestingClasses ==
  {"appOnlySecret", "appOnlyCert", "deviceCode", "interactive", "interactiveBrowserFile"}

\* the requests a class sends: the endpoint under /oauth2/v2.0/ and the grant
RequestsOf(class) ==
  CASE class \in {"appOnlySecret", "appOnlyCert"} ->
         {<<"token", "client_credentials">>}
    [] class = "deviceCode" ->
         {<<"devicecode", "none">>, <<"token", "device_code">>,
          <<"token", "refresh_token">>}
    [] OTHER ->
         {<<"authorize", "none">>, <<"token", "authorization_code">>,
          <<"token", "refresh_token">>}

\* the host of the url the request is sent to
RequestHost(class, host) ==
  IF class \in {"appOnlySecret", "interactiveBrowserFile"}
    THEN "login.microsoftonline.com"
    ELSE getAuthEndpoint(host)

\* a resolver of some class, constructed for some site, sends a request
SendRequest ==
  /\ \E class \in RequestingClasses, host \in SiteHosts :
       \E req \in RequestsOf(class) :
         lastCall' = [op |-> "request", class |-> class, site |-> host,
                      endpoint |-> req[1], grant |-> req[2],
                      host |-> RequestHost(class, host)]
  /\ UNCHANGED <<now, ticks, resolverVars, storeVars, customResolvers,
                 registrations, authMethods>>

\* buildScopes is called for some site with some custom scopes
BuildScopes ==
  /\ \E host \in SiteHosts, customScopes \in CustomScopes,
        includeOfflineAccess \in BOOLEAN :
       lastCall' = [op |-> "buildScopes", site |-> host,
                    customScopes |-> customScopes,
                    includeOfflineAccess |-> includeOfflineAccess,
                    scopes |-> buildScopes(host, customScopes, includeOfflineAccess)]
  /\ UNCHANGED <<now, ticks, resolverVars, storeVars, customResolvers,
                 registrations, authMethods>>

(***************************************************************************)
(* The clock                                                               *)
(***************************************************************************)
Tick ==
  /\ ticks < MaxTicks
  /\ \E d \in TickSteps(kind["r1"]) : now' = now + d
  /\ ticks' = ticks + 1
  /\ UNCHANGED <<resolverVars, storeVars, registryVars>>

(***************************************************************************)
(* Specifications                                                          *)
(***************************************************************************)
Descriptors ==
  [clientId : ClientIds, tenantId : {"tenant"}, clientSecret : {"s3cret"},
   pfxCertificatePath : {"cert.pfx"}, shaThumbprint : {"thumbprint"}]

\* one resolver instance of some class has been constructed
InitResolvers(kinds) ==
  /\ now = 0
  /\ ticks = 0
  /\ cache = [k \in Kinds |-> EmptyCache]
  /\ \E k \in kinds : kind = [r \in Resolvers |-> IF r = "r1" THEN k ELSE "none"]
  /\ \E h \in Hosts : site = [r \in Resolvers |-> h]
  /\ \E d \in Descriptors : opts = [r \in Resolvers |-> d]
  /\ pc = [r \in Resolvers |-> "idle"]
  /\ result = [r \in Resolvers |-> NoResult]
  /\ calls = [r \in Resolvers |-> 0]
  /\ stats = [r \in Resolvers |-> NoStats]
  /\ dc = [r \in Resolvers |-> NoDc]
  /\ ib = [r \in Resolvers |-> NoIb]
  /\ assertions = << >>
  /\ pkce = << >>
  /\ loop = NoLoop
  /\ store = EmptyCache
  /\ lastSet = EmptyCache
  /\ got = [key |-> Absent, value |-> Absent, at |-> 0]
  /\ customResolvers = << >>
  /\ registrations = 0
  /\ authMethods = BuiltinAuthMethods
  /\ lastCall = NoCall

InitApp == InitResolvers(AppKinds)

NextApp ==
  \/ \E r \in Resolvers : AppOnlyGetAuth(r)
  \/ \E r \in Resolvers : AppOnlyTokenResponse(r)
  \/ Tick

SpecApp == InitApp /\ [][NextApp]_vars

InitUser == InitResolvers(UserKinds)

NextUser ==
  \/ \E r \in Resolvers : UserGetAuth(r)
  \/ \E r \in Resolvers : RefreshResponse(r)
  \/ \E r \in Resolvers : DeviceCodeResponse(r)
  \/ \E r \in Resolvers : PollResponse(r)
  \/ \E r \in Resolvers : PollTimer(r)
  \/ \E r \in Resolvers : IbListening(r)
  \/ \E r \in Resolvers : IbCallback(r)
  \/ \E r \in Resolvers : IbExchangeResponse(r)
  \/ \E r \in Resolvers : IbTimeout(r)
  \/ \E r \in Resolvers : IbOrphanResponse(r)
  \/ Tick

SpecUser == InitUser /\ [][NextUser]_vars

\* two resolver instances of one class in one process, constructed for the
\* same site with the same client id or with another
PairClientIds == {"app1", "app2"}

InitPair(kinds) ==
  /\ now = 0
  /\ ticks = 0
  /\ cache = [k \in Kinds |-> EmptyCache]
  /\ \E k \in kinds : kind = [r \in Resolvers |-> k]
  /\ \E h \in Hosts : site = [r \in Resolvers |-> h]
  /\ \E d \in Descriptors, c \in PairClientIds :
       opts = [r \in Resolvers |-> IF r = "r1" THEN d ELSE [d EXCEPT !.clientId = c]]
  /\ pc = [r \in Resolvers |-> "idle"]
  /\ result = [r \in Resolvers |-> NoResult]
  /\ calls = [r \in Resolvers |-> 0]
  /\ stats = [r \in Resolvers |-> NoStats]
  /\ dc = [r \in Resolvers |-> NoDc]
  /\ ib = [r \in Resolvers |-> NoIb]
  /\ assertions = << >>
  /\ pkce = << >>
  /\ loop = NoLoop
  /\ store = EmptyCache
  /\ lastSet = EmptyCache
  /\ got = [key |-> Absent, value |-> Absent, at |-> 0]
  /\ customResolvers = << >>
  /\ registrations = 0
  /\ authMethods = BuiltinAuthMethods
  /\ lastCall = NoCall

\* one resolver instance in a process in which an earlier invocation, of an
\* instance of each class constructed for the site and options `other`, has
\* left its tokens in the cache of its class
OtherHost == <<"contoso", "sharepoint", "com", "mcas", "ms">>

OtherToken == "T0"
OtherRefreshToken == "R0"

Others(hosts, clientIds) ==
  {[op |-> "getAuth", site |-> h, opts |-> [d EXCEPT !.clientId = c]] :
     h \in hosts, d \in Descriptors, c \in clientIds}

EntriesOf(k, other) ==
  LET key == CacheKeyOf(k, other.site, other.opts)
      access == CacheSet(EmptyCache, key, OtherToken,
                         AccessTtl(DefaultExpiresIn), 0)
  IN  IF k \in AppKinds THEN access
      ELSE CacheSet(access, RefreshKey(key), OtherRefreshToken, RefreshTtl, 0)

InitShared(kinds, others) ==
  /\ now = 0
  /\ ticks = 0
  /\ \E k \in kinds : kind = [r \in Resolvers |-> IF r = "r1" THEN k ELSE "none"]
  /\ \E h \in Hosts : site = [r \in Resolvers |-> h]
  /\ \E d \in Descriptors : opts = [r \in Resolvers |-> d]
  /\ lastCall \in others
  /\ cache = [k \in Kinds |-> EntriesOf(k, lastCall)]
  /\ pc = [r \in Resolvers |-> "idle"]
  /\ result = [r \in Resolvers |-> NoResult]
  /\ calls = [r \in Resolvers |-> 0]
  /\ stats = [r \in Resolvers |-> NoStats]
  /\ dc = [r \in Resolvers |-> NoDc]
  /\ ib = [r \in Resolvers |-> NoIb]
  /\ assertions = << >>
  /\ pkce = << >>
  /\ loop = NoLoop
  /\ store = EmptyCache
  /\ lastSet = EmptyCache
  /\ got = [key |-> Absent, value |-> Absent, at |-> 0]
  /\ customResolvers = << >>
  /\ registrations = 0
  /\ authMethods = BuiltinAuthMethods

NextResolvers ==
  \/ \E r \in Resolvers : AppOnlyGetAuth(r)
  \/ \E r \in Resolvers : AppOnlyTokenResponse(r)
  \/ \E r \in Resolvers : UserGetAuth(r)
  \/ \E r \in Resolvers : RefreshResponse(r)
  \/ \E r \in Resolvers : DeviceCodeResponse(r)
  \/ \E r \in Resolvers : PollResponse(r)
  \/ \E r \in Resolvers : PollTimer(r)
  \/ \E r \in Resolvers : IbListening(r)
  \/ \E r \in Resolvers : IbCallback(r)
  \/ \E r \in Resolvers : IbExchangeResponse(r)
  \/ \E r \in Resolvers : IbTimeout(r)
  \/ \E r \in Resolvers : IbOrphanResponse(r)
  \/ Tick

\* the earlier invocation was for the same site or the other, with the same
\* client id or another
SpecShared ==
  /\ InitShared(Kinds, Others(Hosts \cup {OtherHost}, {"app1", "app2"}))
  /\ [][NextResolvers]_vars

\* the earlier invocation was for the other site with another client id
SpecFrame == InitShared(Kinds, Others({OtherHost}, {"app2"})) /\ [][NextResolvers]_vars

\* two device-code resolver instances constructed for the same site and
\* client id, in a process in which an earlier invocation for that site and
\* client id has left its tokens in the cache; the access token has expired
\* since, the refresh token has not
InitRefreshPair ==
  /\ now = AccessTtl(DefaultExpiresIn)
  /\ ticks = 0
  /\ kind = [r \in Resolvers |-> "deviceCode"]
  /\ \E h \in Hosts : site = [r \in Resolvers |-> h]
  /\ \E d \in Descriptors : opts = [r \in Resolvers |-> d]
  /\ cache = [k \in Kinds |->
                IF k = "deviceCode"
                  THEN EntriesOf(k, [site |-> site["r1"], opts |-> opts["r1"]])
                  ELSE EmptyCache]
  /\ pc = [r \in Resolvers |-> "idle"]
  /\ result = [r \in Resolvers |-> NoResult]
  /\ calls = [r \in Resolvers |-> 0]
  /\ stats = [r \in Resolvers |-> NoStats]
  /\ dc = [r \in Resolvers |-> NoDc]
  /\ ib = [r \in Resolvers |-> NoIb]
  /\ assertions = << >>
  /\ pkce = << >>
  /\ loop = NoLoop
  /\ store = EmptyCache
  /\ lastSet = EmptyCache
  /\ got = [key |-> Absent, value |-> Absent, at |-> 0]
  /\ customResolvers = << >>
  /\ registrations = 0
  /\ authMethods = BuiltinAuthMethods
  /\ lastCall = NoCall

\* their calls overlap within one instant, as those of SpecPair; the flow
\* a failed refresh falls back to is followed up to its first poll request
NextRefreshPair ==
  \/ \E r \in Resolvers : UserGetAuth(r)
  \/ \E r \in Resolvers : RefreshResponse(r)
  \/ \E r \in Resolvers : DeviceCodeResponse(r)

SpecRefreshPair == InitRefreshPair /\ [][NextRefreshPair]_vars

\* two interactive resolver instances of one process, both listening on the
\* default redirect port; their calls overlap within the five minutes of a
\* flow, so no timer fires, and a token exchange that a settled flow still
\* awaits stays unanswered
NextPortPair ==
  \/ \E r \in Resolvers : UserGetAuth(r)
  \/ \E r \in Resolvers : IbListening(r)
  \/ \E r \in Resolvers : IbListenError(r)
  \/ \E r \in Resolvers : IbCallback(r)
  \/ \E r \in Resolvers : IbExchangeResponse(r)

SpecPortPair == InitPair({"interactive"}) /\ [][NextPortPair]_vars

\* the calls of the two instances overlap within one instant: no timer
\* fires and no entry expires while they run
NextPair ==
  \/ \E r \in Resolvers : AppOnlyGetAuth(r)
  \/ \E r \in Resolvers : AppOnlyTokenResponse(r)
  \/ \E r \in Resolvers : UserGetAuth(r)
  \/ \E r \in Resolvers : DeviceCodeResponse(r)
  \/ \E r \in Resolvers : PollResponse(r)

SpecPair == InitPair(AppKinds \cup {"deviceCode"}) /\ [][NextPair]_vars

\* one poll loop, with every poll request answered in the end and every
\* timer firing in the end
InitPollLoop == InitResolvers({"deviceCode"})

NextPollLoop ==
  \/ PollForToken
  \/ LoopAnswered
  \/ LoopTimer

SpecPollLoop ==
  InitPollLoop /\ [][NextPollLoop]_vars
    /\ WF_vars(LoopAnswered) /\ WF_vars(LoopTimer)

\* the interactive flows of a process and their PKCE values
InitPkce == InitResolvers({"interactive"})

NextPkce ==
  \/ InitiateInteractiveBrowserFlow
  \/ HandleRequest
  \/ ExchangeAnswered

SpecPkce == InitPkce /\ [][NextPkce]_vars

\* a Cache object on its own: no resolver is constructed
CacheKeys == {"k1", "k2"}
CacheValues == {"v1", "v2"}
CacheTtls == {30, 90}

CacheOpSet ==
  /\ \E k \in CacheKeys, v \in CacheValues, ttl \in CacheTtls :
       /\ store' = CacheSet(store, k, v, ttl, now)
       /\ lastSet' = [x \in DOMAIN lastSet \cup {k} |->
                        IF x = k THEN [value |-> v, at |-> now, ttl |-> ttl]
                        ELSE lastSet[x]]
  /\ UNCHANGED <<now, ticks, resolverVars, got, registryVars>>

CacheOpGet ==
  /\ \E k \in CacheKeys :
       /\ got' = [key |-> k, value |-> CacheGet(store, k, now), at |-> now]
       /\ store' = CacheAfterGet(store, k, now)
  /\ UNCHANGED <<now, ticks, resolverVars, lastSet, registryVars>>

CacheOpRemove ==
  /\ \E k \in CacheKeys :
       /\ store' = CacheRemove(store, k)
       /\ lastSet' = [x \in DOMAIN lastSet \ {k} |-> lastSet[x]]
  /\ UNCHANGED <<now, ticks, resolverVars, got, registryVars>>

InitCache == InitResolvers({"none"})

NextCache ==
  \/ CacheOpSet
  \/ CacheOpGet
  \/ CacheOpRemove
  \/ Tick

SpecCache == InitCache /\ [][NextCache]_vars

\* the factory and the two plugin registries: no resolver is constructed
InitFactory == InitResolvers({"none"})

NextFactory ==
  \/ RegisterAuthResolver
  \/ Resolve
  \/ ResolveLegacy
  \/ RegisterAuthMethod
  \/ GetAuthMethod

SpecFactory == InitFactory /\ [][NextFactory]_vars

\* what the resolvers inherit from OnlineResolver: no resolver is running
InitOnline == InitResolvers({"none"})

NextOnline ==
  \/ SendRequest
  \/ BuildScopes

SpecOnline == InitOnline /\ [][NextOnline]_vars

(***************************************************************************)
(* Claims                                                                  *)
(***************************************************************************)
\* getAuth() is called on r in this step
Called(r) == calls'[r] = calls[r] + 1

\* the header of r's last resolved call
LastHeader(r) ==
  IF result[r].status = "resolved" THEN result[r].header ELSE stats[r].prev

C1Step(r) ==
  /\ Called(r) =>
       IF Live(cache[kind[r]], CacheKey(r), now)
         THEN /\ pc'[r] = "settled"
              /\ result'[r].status = "resolved"
              /\ result'[r].header = Bearer(cache[kind[r]][CacheKey(r)].value)
              /\ result'[r].header = LastHeader(r)
              /\ stats'[r].posts = 0
              /\ stats'[r].writes = 0
              /\ cache' = cache
         ELSE /\ pc'[r] = "tokenPost"
              /\ stats'[r].posts = 1
              /\ stats'[r].writes = 0
  /\ (pc[r] = "tokenPost" /\ pc'[r] = "settled") =>
       /\ stats'[r].posts = 1
       /\ result'[r].status = "resolved" =>
            /\ stats'[r].writes = 1
            /\ result'[r].header = Bearer(stats'[r].token)
            /\ Live(cache'[kind[r]], CacheKey(r), now)
            /\ cache'[kind[r]][CacheKey(r)].value = stats'[r].token
       /\ result'[r].status = "rejected" => stats'[r].writes = 0

\* C1: a client-credentials getAuth that finds no live entry for its key sends
\* exactly one token POST and, when it resolves, has written the cache entry of
\* that key exactly once and returns 'Bearer <access_token of the response>';
\* a getAuth that finds a live entry sends nothing, leaves the cache alone and
\* returns the header the earlier call returned.
C1_OnePostThenCacheHit ==
  [][\A r \in Resolvers : kind[r] = "appOnlySecret" => C1Step(r)]_vars

C1_Witness ==
  \E r \in Resolvers :
    /\ kind[r] = "appOnlySecret"
    /\ calls[r] >= 2
    /\ stats[r].cached # Absent
    /\ stats[r].posts = 0
    /\ result[r].status = "resolved"
    /\ result[r].header = stats[r].prev

\* the states of a getAuth() call in which a top-level flow is under way
FlowStates == {"devicePost", "pollPost", "pollWait", "interactive"}

C2Step(r) ==
  LET key == CacheKey(r)
      access == Live(cache[kind[r]], key, now)
      refresh == Live(cache[kind[r]], RefreshKey(key), now)
  IN  /\ Called(r) =>
           /\ access =>
                /\ pc'[r] = "settled"
                /\ result'[r] = Resolved(cache[kind[r]][key].value)
                /\ stats'[r].posts = 0
                /\ cache' = cache
           /\ (~access /\ refresh) =>
                /\ pc'[r] = "refreshPost"
                /\ stats'[r].posts = 1
                /\ stats'[r].flows = 0
           /\ (~access /\ ~refresh) =>
                /\ pc'[r] \in {"devicePost", "interactive"}
                /\ stats'[r].flows = 1
      /\ (pc'[r] = "refreshPost" /\ pc[r] # "refreshPost") =>
           Called(r) /\ ~access /\ refresh
      /\ (stats'[r].flows = 1 /\ stats[r].flows # 1 /\ Called(r)) =>
           ~access /\ ~refresh

\* C2: getAuth of the device-code and interactive resolvers returns a live
\* cached access token without any request or cache change; it sends the
\* refresh grant exactly when the access token is absent and a refresh token is
\* cached; it starts the top-level flow directly exactly when both are absent.
C2_AccessThenRefreshThenFlow ==
  [][\A r \in Resolvers : kind[r] \in UserKinds => C2Step(r)]_vars

C2_Witness ==
  \E r \in Resolvers :
    /\ kind[r] \in UserKinds
    /\ pc[r] = "refreshPost"
    /\ calls[r] = 2
    /\ stats[r].flows = 0

\* C3: when the refresh grant is answered with a body that carries `error`, the
\* ':refresh' entry is gone in the state in which the first request of the
\* top-level flow is under way (the devicecode POST, the listener being bound),
\* and the call has not been rejected.
C3_RefreshErrorEvictsThenFlow ==
  [][\A r \in Resolvers :
       (kind[r] \in UserKinds /\ pc[r] = "refreshPost"
          /\ stats'[r].refresh = "error") =>
         /\ RefreshKey(CacheKey(r)) \in DOMAIN cache[kind[r]]
         /\ RefreshKey(CacheKey(r)) \notin DOMAIN cache'[kind[r]]
         /\ stats'[r].flows = 1
         /\ result'[r].status = "none"
         /\ kind[r] = "deviceCode" =>
              pc'[r] = "devicePost" /\ stats'[r].posts = stats[r].posts + 1
         /\ kind[r] = "interactive" =>
              /\ pc'[r] = "interactive"
              /\ ib'[r].listener = "binding"
              /\ ~ib'[r].browser]_vars

C3_Witness ==
  \E r \in Resolvers :
    /\ kind[r] = "deviceCode"
    /\ stats[r].refresh = "error"
    /\ pc[r] = "devicePost"
    /\ stats[r].flows = 1
    /\ RefreshKey(CacheKey(r)) \notin DOMAIN cache[kind[r]]

\* C4: within one getAuth invocation of the device-code or interactive
\* resolver at most one top-level flow is ever started.
C4_AtMostOneFlowPerCall ==
  \A r \in Resolvers : kind[r] \in UserKinds => stats[r].flows <= 1

\* C5: a step that ends a top-level flow in failure rejects getAuth with that
\* failure and starts no other flow.
C5_FlowFailureRejects ==
  [][\A r \in Resolvers :
       (kind[r] \in UserKinds /\ pc[r] \in FlowStates
          /\ (pc'[r] \notin FlowStates \/ stats'[r].flows # stats[r].flows)
          /\ result'[r].status # "resolved") =>
         /\ pc'[r] = "settled"
         /\ result'[r].status = "rejected"
         /\ stats'[r].flows = stats[r].flows]_vars

\* C6: every poll answer is classified: authorization_pending schedules the
\* next poll after the interval, slow_down after the interval plus 5 s, any
\* other error rejects getAuth and schedules no poll, an answer without error
\* resolves.
C6_PollAnswerClassified ==
  [][\A r \in Resolvers :
       (kind[r] = "deviceCode" /\ pc[r] = "pollPost" /\ pc'[r] # "pollPost") =>
         CASE dc'[r].last = "authorization_pending" ->
                /\ pc'[r] = "pollWait"
                /\ dc'[r].wakeAt = now + IntervalOf(dc[r].given)
           [] dc'[r].last = "slow_down" ->
                /\ pc'[r] = "pollWait"
                /\ dc'[r].wakeAt = now + IntervalOf(dc[r].given) + 5
           [] dc'[r].last = "token" ->
                pc'[r] = "settled" /\ result'[r].status = "resolved"
           [] OTHER ->
                pc'[r] = "settled" /\ result'[r].status = "rejected"]_vars

\* C7: a poll loop that has received k transient answers and then a token has
\* sent exactly k + 1 poll requests, and getAuth resolves with 'Bearer T' for
\* the token T of that answer, which is the token now cached; a transient
\* answer never ends the loop.
C7_TransientsThenToken ==
  [][\A r \in Resolvers :
       (kind[r] = "deviceCode" /\ pc[r] = "pollPost" /\ pc'[r] # "pollPost") =>
         /\ dc'[r].last \in TransientErrors =>
              /\ pc'[r] = "pollWait"
              /\ dc'[r].transients = dc[r].transients + 1
              /\ dc'[r].polls = dc'[r].transients
              /\ result'[r].status = "none"
         /\ dc'[r].last = "token" =>
              /\ pc'[r] = "settled"
              /\ dc'[r].polls = dc'[r].transients + 1
              /\ result'[r].status = "resolved"
              /\ result'[r].header = Bearer(cache'[kind[r]][CacheKey(r)].value)]_vars

C7_Witness ==
  \E r \in Resolvers :
    /\ kind[r] = "deviceCode"
    /\ pc[r] = "settled"
    /\ result[r].status = "resolved"
    /\ dc[r].last = "token"
    /\ dc[r].transients = 2
    /\ dc[r].polls = 3

\* C8: no poll request is sent after the deadline (expires_in seconds after
\* the devicecode answer), and a scheduled poll that finds the deadline passed
\* rejects getAuth with the 'device code expired' failure.
C8_DeadlineEnforced ==
  /\ [](\A r \in Resolvers : ~dc[r].late)
  /\ [][\A r \in Resolvers :
          (kind[r] = "deviceCode" /\ pc[r] = "pollWait" /\ pc'[r] # "pollWait"
             /\ dc[r].expiresAt # NotGiven /\ now > dc[r].expiresAt) =>
            /\ pc'[r] = "settled"
            /\ result'[r] = Rejected("Device code expired. Please try again.")]_vars

\* C9: every access-token cache write of a built-in resolver uses the TTL
\* max(expires_in - 300, 60) for the expires_in the provider gave, and never
\* a TTL below 60.
C9_TtlFromProviderValue ==
  \A r \in Resolvers :
    (kind[r] \in Kinds /\ stats[r].writes > 0 /\ stats[r].given # NotGiven) =>
      /\ stats[r].ttl = Max(stats[r].given - 300, 60)
      /\ stats[r].ttl >= 60
      /\ stats[r].given = 3600 => stats[r].ttl = 3300
      /\ stats[r].given = 120 => stats[r].ttl = 60

\* what the law says get(k) returns at this moment
C10Expected(k) ==
  IF k \in DOMAIN lastSet /\ now - lastSet[k].at < lastSet[k].ttl
    THEN lastSet[k].value
    ELSE Absent

\* C10: over any sequence of set, get, remove and clock advances, get(k)
\* returns the value of the most recent set(k, v, ttl) when fewer than ttl
\* seconds have passed since it and no remove(k) followed it, and absent
\* otherwise; a get(k) that returns absent leaves no entry of k behind.
C10_CacheLaw ==
  /\ [](\A k \in CacheKeys : CacheGet(store, k, now) = C10Expected(k))
  /\ [][got' # got =>
          /\ got'.value = C10Expected(got'.key)
          /\ got'.value = Absent => got'.key \notin DOMAIN store']_vars

C10_Witness ==
  /\ got.key \in DOMAIN lastSet
  /\ got.at = now
  /\ now - lastSet[got.key].at >= lastSet[got.key].ttl
  /\ got.value = Absent
  /\ got.key \notin DOMAIN store
  /\ \E k \in CacheKeys : k # got.key /\ CacheGet(store, k, now) # Absent

\* the custom registry as it was at the last resolve call (the registry only
\* grows), and the factories of it that claim the descriptor of that call
RegistryAtCall == SubSeq(customResolvers, 1, lastCall.registered)
ClaimersAtCall ==
  {i \in 1..lastCall.registered :
     lastCall.options.authMethod \in customResolvers[i].handles}
FirstClaimerAtCall == CHOOSE i \in ClaimersAtCall : \A j \in ClaimersAtCall : i <= j

\* a resolve call of the factory with the custom registry, with a descriptor
ResolvedPresent ==
  lastCall.op = "resolve" /\ ~lastCall.legacy /\ lastCall.options.present

\* C11: resolve offers a present descriptor to the custom factories in
\* registration order before any built-in discriminator is evaluated: it
\* returns what the first factory that claims the descriptor produces, calls
\* no factory after that one, and evaluates the built-in discriminators only
\* when every factory has been called and returned null.
C11_CustomFactoriesFirst ==
  ResolvedPresent =>
    IF ClaimersAtCall # {}
      THEN /\ lastCall.called = FirstClaimerAtCall
           /\ lastCall.outcome = customResolvers[FirstClaimerAtCall].produces
           /\ ~lastCall.builtin
      ELSE /\ lastCall.called = lastCall.registered
           /\ lastCall.builtin

C11_Witness ==
  /\ ResolvedPresent
  /\ lastCall.options.authMethod = "deviceCode"
  /\ lastCall.registered = 2
  /\ lastCall.called = 1
  /\ lastCall.outcome = "TakeOverResolver"
  /\ customResolvers[2].name = "certFactory"

\* the built-in resolvers in the order resolve tries them, and the
\* discriminator of each (the resolve without custom registry has the first
\* three, with the legacy detection)
C12Order ==
  << "DeviceCodeResolver", "InteractiveBrowserResolver", "OnlineAppOnlyCredentials",
     "OnpremiseAddinOnly", "OnpremiseUserCredentials" >>

C12Matches(i, T, legacy) ==
  CASE i = 1 -> IF legacy THEN isDeviceCodeLegacy(T) ELSE isDeviceCode(T)
    [] i = 2 -> IF legacy THEN isInteractiveBrowserLegacy(T) ELSE isInteractiveBrowser(T)
    [] i = 3 -> IF legacy THEN isAppOnlyOnlineLegacy(T) ELSE isAppOnlyOnline(T)
    [] i = 4 -> ~legacy /\ T.authMethod = "onPremiseAddin"
    [] i = 5 -> ~legacy /\ T.authMethod = "onPremiseUserCredentials"

C12Matching == {i \in 1..5 : C12Matches(i, lastCall.options, lastCall.legacy)}

\* C12: when no custom factory claims a present descriptor, resolve returns
\* the resolver of the first discriminator that matches, in the order
\* device-code, interactive, app-only, on-premise add-in, on-premise user
\* credentials; when none matches it throws and returns no resolver.
C12_BuiltinOrderThenError ==
  (lastCall.op = "resolve" /\ lastCall.options.present
     /\ (lastCall.legacy \/ ClaimersAtCall = {})) =>
    /\ lastCall.builtin
    /\ IF C12Matching = {}
         THEN lastCall.outcome = ResolveError
         ELSE lastCall.outcome =
                C12Order[CHOOSE i \in C12Matching : \A j \in C12Matching : i <= j]

C12_Witness ==
  /\ ResolvedPresent
  /\ lastCall.options.authMethod = "onPremiseUserCredentials"
  /\ lastCall.registered = 2
  /\ lastCall.called = 2
  /\ lastCall.outcome = "OnpremiseUserCredentials"

\* the classes resolve can return
ResolverClasses ==
  {"FileConfig", "DeviceCodeResolver", "InteractiveBrowserResolver",
   "OnlineAppOnlyCredentials", "OnpremiseAddinOnly", "OnpremiseUserCredentials",
   "MyCertResolver", "TakeOverResolver"}

\* the last resolve call had a descriptor that is absent, or claimed by a
\* registered factory, or of a built-in authentication method
C13Handled ==
  \/ ~lastCall.options.present
  \/ ~lastCall.legacy /\ ClaimersAtCall # {}
  \/ ~lastCall.legacy /\
       lastCall.options.authMethod \in
         {"deviceCode", "interactive", "appOnly", "onPremiseAddin",
          "onPremiseUserCredentials"}
  \/ lastCall.legacy /\ C12Matching # {}

\* C13 as stated: every resolve call selects exactly one resolver, and a call
\* that repeats the descriptor of the call before selects the same strategy.
C13_AlwaysOneAndStable ==
  lastCall.op = "resolve" =>
    /\ lastCall.outcome \in ResolverClasses
    /\ lastCall.repeat # "no" => lastCall.sameOutcome

\* C13: resolve selects exactly one resolver for an absent descriptor and for
\* a present one that a registered factory claims or a built-in discriminator
\* matches, and throws for any other; a call that repeats the descriptor of
\* the call before, with no factory registered in between, selects the same
\* strategy.
C13_OneWhenHandledStableWhenUnchanged ==
  lastCall.op = "resolve" =>
    /\ C13Handled => lastCall.outcome \in ResolverClasses
    /\ ~C13Handled => lastCall.outcome = ResolveError
    /\ lastCall.repeat = "same" => lastCall.sameOutcome

C13_Witness ==
  /\ ResolvedPresent
  /\ lastCall.repeat = "same"
  /\ lastCall.sameOutcome
  /\ lastCall.registered = 2
  /\ lastCall.outcome = "OnpremiseUserCredentials"

\* the discriminators that match the descriptor of the last resolve call
C14Matching ==
  IF lastCall.legacy
    THEN {i \in 1..3 : C12Matches(i, lastCall.options, TRUE)}
    ELSE {i \in 1..5 :
            CASE i = 1 -> isDeviceCode(lastCall.options)
              [] i = 2 -> isInteractiveBrowser(lastCall.options)
              [] i = 3 -> isAppOnlyOnline(lastCall.options)
              [] i = 4 -> isOnPremiseAddinOnly(lastCall.options)
              [] i = 5 -> isOnpremiseUserCredentials(lastCall.options)}

\* C14: a descriptor that a built-in resolver handles is matched by exactly
\* one built-in discriminator, the legacy detection included; none is matched
\* by two.
C14_ExactlyOneDiscriminator ==
  (lastCall.op = "resolve" /\ lastCall.options.present /\ lastCall.builtin) =>
    /\ Cardinality(C14Matching) <= 1
    /\ lastCall.outcome \in ResolverClasses => Cardinality(C14Matching) = 1

\* is there an entry with this id, and the one registered first
HasId(methods, id) == \E i \in 1..Len(methods) : methods[i].id = id
FirstWithId(methods, id) ==
  methods[CHOOSE i \in 1..Len(methods) :
            /\ methods[i].id = id
            /\ \A j \in 1..Len(methods) : methods[j].id = id => i <= j]

\* authMethods is authMethods' or the beginning of it
IsPrefix(s, t) == Len(s) <= Len(t) /\ SubSeq(t, 1, Len(s)) = s

\* C15: no two entries of the auth-method registry share an id; a
\* registerAuthMethod call with an id that is present returns without
\* changing the registry, and getAuthMethod(id) returns the entry registered
\* first for every id, before and after every registration.
C15_NoDuplicateIds ==
  /\ [](\A i, j \in 1..Len(authMethods) :
          authMethods[i].id = authMethods[j].id => i = j)
  /\ [](\A id \in MethodIds :
          getAuthMethod(authMethods, id) =
            IF HasId(authMethods, id) THEN FirstWithId(authMethods, id)
            ELSE NoMethod)
  /\ [][(lastCall'.op = "registerAuthMethod" /\ lastCall' # lastCall) =>
          /\ IF HasId(authMethods, lastCall'.method.id)
               THEN authMethods' = authMethods /\ lastCall'.outcome = "skipped"
               ELSE /\ authMethods' = Append(authMethods, lastCall'.method)
                    /\ lastCall'.outcome = "added"
          /\ \A id \in MethodIds :
               HasId(authMethods, id) =>
                 getAuthMethod(authMethods', id) = getAuthMethod(authMethods, id)]_vars

C15_Witness ==
  /\ lastCall.op = "registerAuthMethod"
  /\ lastCall.outcome = "skipped"
  /\ lastCall.method = Method("myCert", "Another")
  /\ getAuthMethod(authMethods, "myCert") = Method("myCert", "Certificate-Based")
  /\ Len(authMethods) = 7

\* C16: both registries are append-only: every step keeps the entries there
\* were, in their order; every registerAuthResolver call adds exactly one
\* entry to the resolver registry, also for a factory that is registered
\* already; resolve and getAuthMethod change neither registry.
C16_AppendOnly ==
  /\ [](Len(customResolvers) = registrations)
  /\ [][/\ IsPrefix(customResolvers, customResolvers')
        /\ IsPrefix(authMethods, authMethods')
        /\ registrations' # registrations =>
             /\ Len(customResolvers') = Len(customResolvers) + 1
             /\ customResolvers'[Len(customResolvers')] \in Factories
             /\ authMethods' = authMethods
        /\ Len(authMethods') <= Len(authMethods) + 1
        /\ (lastCall' # lastCall /\ lastCall'.op \in {"resolve", "getAuthMethod"}) =>
             customResolvers' = customResolvers /\ authMethods' = authMethods
        /\ authMethods' # authMethods => customResolvers' = customResolvers]_vars

C16_Witness ==
  /\ Len(customResolvers) = 2
  /\ customResolvers[1] = customResolvers[2]
  /\ Len(authMethods) = 6
  /\ lastCall.op = "resolve"
  /\ lastCall.registered = 2

(***************************************************************************)
(* The interactive flow: callback, listener, timeout, browser              *)
(***************************************************************************)
\* a step in which the request handler of r receives a callback request
CallbackStep(r) ==
  kind[r] = "interactive" /\ ib'[r].callbacks = ib[r].callbacks + 1

\* the callback has no error, has a code, and has the state of the flow
ValidCallback(q) == ~q.error /\ q.code /\ q.state = "flow"

\* nothing is written to the token cache of r's class in the step
NoCacheWrite(r) ==
  \A k \in DOMAIN cache'[kind[r]] :
    k \in DOMAIN cache[kind[r]] /\ cache'[kind[r]][k] = cache[kind[r]][k]

\* C17: the handler of the interactive flow sends the token request exactly
\* for a callback without error, with a code and with the state of the flow;
\* for any other callback it serves a failure page, getAuth is rejected, no
\* token request is sent and nothing is written to the cache.
C17_ExchangeOnlyForValidCallback ==
  [][\A r \in Resolvers :
       CallbackStep(r) =>
         IF ValidCallback(ib'[r].callback)
           THEN /\ ib'[r].handler = "exchanging"
                /\ stats'[r].posts = stats[r].posts + 1
           ELSE /\ ib'[r].page \in {"Authentication Failed", "Invalid Response"}
                /\ stats'[r].posts = stats[r].posts
                /\ NoCacheWrite(r)
                /\ pc'[r] = "settled"
                /\ result'[r].status = "rejected"]_vars

\* C18: in every state in which getAuth of an interactive resolver has
\* settled, no http server of the call is listening or about to: the listener
\* of each of its flows has been closed.
C18_ListenerClosedWhenSettled ==
  \A r \in Resolvers :
    (kind[r] = "interactive" /\ pc[r] = "settled") =>
      /\ ib[r].servers = 0
      /\ ib[r].listener \in {"none", "closed"}

C18_Witness ==
  \E r \in Resolvers :
    /\ kind[r] = "interactive"
    /\ pc[r] = "settled"
    /\ result[r].status = "rejected"
    /\ ib[r].page = "Authentication Error"
    /\ ib[r].listener = "closed"

\* C19: when the 5-minute timer of an interactive flow fires with the flow
\* still pending, the listener is closed and getAuth is rejected with the
\* timeout failure.
C19_TimeoutRejects ==
  [][\A r \in Resolvers :
       (kind[r] = "interactive" /\ ib'[r].timeouts = ib[r].timeouts + 1) =>
         /\ now >= ib[r].timerAt
         /\ ib'[r].servers = 0
         /\ pc'[r] = "settled"
         /\ result'[r] = Rejected("Authentication timeout")]_vars

\* C20: the browser of an interactive flow is opened in the step in which the
\* listener of that flow starts listening and in no other; in every state in
\* which the browser has been opened the listener has been bound, and a
\* callback is received only by a listener that is listening, after the
\* browser was opened.
C20_BrowserAfterListening ==
  /\ [](\A r \in Resolvers :
          ib[r].browser => ib[r].listener \in {"open", "closed"})
  /\ [][\A r \in Resolvers :
          /\ (~ib[r].browser /\ ib'[r].browser) =>
               (ib[r].listener = "binding" /\ ib'[r].listener = "open")
          /\ CallbackStep(r) => (ib[r].listener = "open" /\ ib[r].browser)]_vars

C20_Witness ==
  \E r \in Resolvers :
    /\ kind[r] = "interactive"
    /\ pc[r] = "interactive"
    /\ ib[r].listener = "open"
    /\ ib[r].browser
    /\ ib[r].callbacks = 0

\* C21: the server of one interactive flow handles one request only: a
\* request is handled only when the server has handled none before, so a flow
\* sends at most one token exchange, also when a second request arrives while
\* the token exchange of the first is awaited.
C21_OneCallbackPerFlow ==
  /\ [](\A r \in Resolvers : ib[r].requests <= 1 /\ ib[r].exchanges <= 1)
  /\ [][\A r \in Resolvers : CallbackStep(r) => ib[r].requests = 0]_vars

(***************************************************************************)
(* The app-only resolvers: failures                                        *)
(***************************************************************************)
\* every entry get() would return before the step is there unchanged after it:
\* all that the step may remove is an entry that has expired
LiveEntriesKept(r) ==
  \A k \in DOMAIN cache[kind[r]] :
    Live(cache[kind[r]], k, now) =>
      (k \in DOMAIN cache'[kind[r]] /\ cache'[kind[r]][k] = cache[kind[r]][k])

\* the token request of r is answered in the step
AppAnswerStep(r) ==
  kind[r] \in AppKinds /\ pc[r] = "tokenPost" /\ pc'[r] = "settled"

C24Authority(host) ==
  LET environment == ResolveHostingEnvironment(host)
  IN  CASE environment = "China" -> "login.chinacloudapi.cn"
        [] environment = "German" -> "login.microsoftonline.de"
        [] environment \in {"USGovernment", "USDefence"} -> "login.microsoftonline.us"
        [] OTHER -> "login.microsoftonline.com"

Occurrences(tokens, t) == Cardinality({i \in 1..Len(tokens) : tokens[i] = t})

\* the tokens of the custom scopes, in the order given
C25CustomTokens(customScopes) == JoinSpaces(customScopes.value)

C26Fingerprint(k, o) ==
  CASE k = "appOnlySecret" -> o.clientSecret
    [] k = "appOnlyCert" -> o.pfxCertificatePath
    [] k = "interactive" -> "interactive"
    [] OTHER -> ""

C27Miss(r) == calls'[r] = calls[r] + 1 /\ stats'[r].cached = Absent

\* a token answer to a request of r is cached
C27Write(r) == calls'[r] = calls[r] /\ stats'[r].writes = stats[r].writes + 1

C28Own(r) == {CacheKey(r), RefreshKey(CacheKey(r))}

\* what the earlier invocation left in the cache of each class
C28Left ==
  [k \in Kinds |->
     [other \in Others(Hosts \cup {OtherHost}, PairClientIds) |-> EntriesOf(k, other)]]

C30TokenRequest(r) ==
  kind[r] = "appOnlyCert" /\ calls'[r] = calls[r] + 1 /\ stats'[r].posts = 1

C29S256(verifier) == <<"sha256", verifier>>

\* C29: the code_challenge in the authorization URL of a flow is
\* base64url(sha256(.)) of the verifier the flow sends as code_verifier in
\* each of its token exchanges, and no two flows have the same verifier or
\* the same state.
C29_PkceBinding ==
  \A i \in 1..Len(pkce) :
    /\ pkce[i].authUrl.code_challenge = C29S256(pkce[i].codeVerifier)
    /\ pkce[i].authUrl.state = pkce[i].state
    /\ \A e \in 1..Len(pkce[i].exchanges) :
         pkce[i].authUrl.code_challenge = C29S256(pkce[i].exchanges[e].code_verifier)
    /\ \A j \in 1..Len(pkce) :
         j # i => /\ pkce[j].codeVerifier # pkce[i].codeVerifier
                  /\ pkce[j].state # pkce[i].state

C29_Witness ==
  /\ Len(pkce) >= 2
  /\ pkce[1].settled = "rejected"
  /\ Len(pkce[1].exchanges) >= 1
  /\ Len(pkce[2].exchanges) >= 1
  /\ pkce[2].settled = "resolved"

\* C31: the app-only resolvers ask for no offline_access, send no grant other
\* than client_credentials, and keep nothing but the access token under their
\* key in their cache; a call that finds no live access token sends a new
\* client_credentials request (unless the certificate cannot be loaded).
C31_AppOnlyNeverRefreshes ==
  /\ [](\A r \in Resolvers :
          kind[r] \in AppKinds =>
            /\ DOMAIN cache[kind[r]] \subseteq {CacheKey(r)}
            /\ RefreshKey(CacheKey(r)) \notin DOMAIN cache[kind[r]]
            /\ stats[r].posts > 0 =>
                 /\ stats[r].grant = "client_credentials"
                 /\ \A i \in 1..Len(stats[r].scope) :
                      stats[r].scope[i] # "offline_access")
  /\ [][\A r \in Resolvers :
          (/\ kind[r] \in AppKinds
           /\ calls'[r] = calls[r] + 1
           /\ ~Live(cache[kind[r]], CacheKey(r), now)
           /\ stats'[r].certificate # "failed")
            => /\ stats'[r].posts = 1
               /\ stats'[r].grant = "client_credentials"
               /\ pc'[r] = "tokenPost"]_vars

C31_Witness ==
  \E r \in Resolvers :
    /\ kind[r] \in AppKinds
    /\ calls[r] = 2
    /\ stats[r].prev # Absent
    /\ pc[r] = "tokenPost"
    /\ stats[r].grant = "client_credentials"
    /\ Len(stats[r].scope) = 1

\* a token answer to a request of the device-code or interactive resolver r
\* is cached: a poll, a code exchange or a refresh grant succeeded
C32Acquired(r) ==
  /\ kind[r] \in UserKinds
  /\ calls'[r] = calls[r]
  /\ stats'[r].writes = stats[r].writes + 1

\* C32: a successful token acquisition of the device-code or interactive
\* resolver overwrites the access-token entry with the new token; it writes
\* the ':refresh' entry, expiring 7,776,000 s later, if and only if the answer
\* carries a refresh_token, and otherwise leaves that entry as it was.
C32_TokensCachedOnSuccess ==
  [][\A r \in Resolvers :
       C32Acquired(r) =>
         LET response == stats'[r].answer
             key == CacheKey(r)
             before == cache[kind[r]]
             after == cache'[kind[r]]
         IN  /\ key \in DOMAIN after
             /\ after[key].value = response.access_token
             /\ response.refresh_token # Absent =>
                  /\ RefreshKey(key) \in DOMAIN after
                  /\ after[RefreshKey(key)] =
                       [value |-> response.refresh_token, expiresAt |-> now + 7776000]
             /\ response.refresh_token = Absent =>
                  /\ RefreshKey(key) \in DOMAIN after <=> RefreshKey(key) \in DOMAIN before
                  /\ RefreshKey(key) \in DOMAIN before =>
                       after[RefreshKey(key)] = before[RefreshKey(key)]]_vars

C32_Witness ==
  \E r \in Resolvers :
    /\ kind[r] \in UserKinds
    /\ stats[r].refresh = "ok"
    /\ stats[r].answer.refresh_token = Absent
    /\ RefreshKey(CacheKey(r)) \in DOMAIN cache[kind[r]]
    /\ result[r] = Resolved(stats[r].answer.access_token)

\* a poll loop is running: the promise of pollForToken is pending
C33Looping == loop.started /\ loop.settled = "pending"

\* once the promise has settled no timer is pending, no poll request is in
\* flight and nothing of the loop changes any more
C33Quiet ==
  /\ [](loop.settled # "pending" => ~loop.timer /\ loop.inflight = 0)
  /\ [][loop.settled # "pending" => loop' = loop]_vars

\* a poll loop whose device-code response gave expires_in settles
C33WithDeadline ==
  (C33Looping /\ loop.expires_in # NotGiven) ~> (loop.settled # "pending")

\* C33: with every poll request answered and time advancing, every poll loop
\* eventually settles (it resolves, fails terminally or expires at its
\* deadline), and once it has settled it schedules no timer and sends no
\* poll request.
C33_PollLoopTerminates ==
  /\ C33Looping ~> (loop.settled # "pending")
  /\ C33Quiet

\* the last call was resolve(siteUrl) without a descriptor
C34NoDescriptor == lastCall.op = "resolve" /\ ~lastCall.options.present

\* C34: resolve called without a descriptor returns the file-based
\* configuration resolver, calls no registered custom factory and evaluates
\* no built-in discriminator, whatever the custom registry holds.
C34_NoDescriptorGivesFileConfig ==
  C34NoDescriptor =>
    /\ lastCall.outcome = "FileConfig"
    /\ lastCall.called = 0
    /\ ~lastCall.builtin

C34_Witness ==
  /\ C34NoDescriptor
  /\ ~lastCall.legacy
  /\ lastCall.outcome = "FileConfig"
  /\ lastCall.registered = MaxFactories
  /\ \E T \in AuthOptions : TryCustom(customResolvers, T).resolver # Null

\* the refresh grant of r is answered and has failed
C35RefreshFailed(r) ==
  /\ stats[r].refresh = "sent"
  /\ stats'[r].refresh \in {"failed", "error"}

\* C35: a failed refresh evicts only the refresh token it used: when the
\* grant of an invocation fails while the cache holds another refresh token
\* for the key, stored by a concurrent invocation whose grant succeeded, that
\* token is still in the cache afterwards.
C35_FailedRefreshEvictsOnlyItsToken ==
  [][\A r \in Resolvers :
       C35RefreshFailed(r) =>
         LET key == RefreshKey(CacheKey(r))
             before == cache[kind[r]]
             after == cache'[kind[r]]
         IN  (key \in DOMAIN before /\ before[key].value # stats[r].used) =>
               (key \in DOMAIN after /\ after[key] = before[key])]_vars

\* the getAuth call of the interactive resolver r has been rejected by the
\* 5-minute timeout and no later call has begun
C36Rejected(r) ==
  /\ kind[r] = "interactive"
  /\ pc[r] = "settled"
  /\ result[r] = Rejected("Authentication timeout")
  /\ calls'[r] = calls[r]

\* C36: once the promise of an interactive flow has settled the flow has no
\* further effect: a flow whose getAuth was rejected by the 5-minute timeout
\* while its token exchange was in flight writes no token to the cache
\* afterwards, and the result of the call stays what it is.
C36_SettledFlowHasNoEffect ==
  [][\A r \in Resolvers :
       C36Rejected(r) => cache'[kind[r]] = cache[kind[r]] /\ result'[r] = result[r]]_vars

\* the resolver r caches the token of an answer that gives a positive
\* expires_in
C37Cached(r) ==
  /\ kind[r] \in Kinds
  /\ stats'[r].writes = stats[r].writes + 1
  /\ stats'[r].given > 0

\* C37: the cache entry written for a token expires no later than expires_in
\* seconds after the token was received, for every expires_in the provider
\* gives, values below 60 included.
C37_EntryExpiresWithToken ==
  [][\A r \in Resolvers :
       C37Cached(r) =>
         /\ CacheKey(r) \in DOMAIN cache'[kind[r]]
         /\ cache'[kind[r]][CacheKey(r)].expiresAt <= now + stats'[r].given]_vars

\* the devicecode request of r is answered by the provider's error object:
\* a body that carries `error` and neither device_code nor expires_in
C38ErrorAnswer(r) ==
  /\ kind[r] = "deviceCode"
  /\ pc[r] = "devicePost"
  /\ pc'[r] # "devicePost"
  /\ dc'[r].expiresAt = NotGiven

\* C38: when the device-code initiation request is answered with a provider
\* error object, getAuth rejects without starting the poll loop: no poll
\* request is sent to the token endpoint.
C38_InitiationErrorRejects ==
  [][\A r \in Resolvers :
       C38ErrorAnswer(r) =>
         /\ pc'[r] = "settled"
         /\ result'[r].status = "rejected"
         /\ stats'[r].posts = stats[r].posts
         /\ dc'[r].polls = 0]_vars

\* the hostname of a SharePoint Online site of one of the hosting
\* environments: Production, China, Germany, US Government, US Defense
C39Supported(host) ==
  <<host[Len(host) - 1], host[Len(host)]>> \in
    { <<"sharepoint", "com">>, <<"sharepoint", "cn">>, <<"sharepoint", "de">>,
      <<"sharepoint", "us">>, <<"sharepoint-mil", "us">> }

\* C39: for every site URL of a supported hosting environment the default
\* scope produced by buildScopes is 'https://<H>/.default', where H is
\* exactly the hostname of the site URL.
C39_DefaultScopeOfHostname ==
  (lastCall.op = "buildScopes" /\ C39Supported(lastCall.site)) =>
    /\ Len(lastCall.scopes) >= 1
    /\ lastCall.scopes[1] = "https://" \o JoinDots(lastCall.site) \o "/.default"

\* the listener of the flow of r cannot bind: the port is held
C40BindFails(r) == ib[r].listener = "binding" /\ ib'[r].listener = "failed"

\* C40: of two interactive flows on one redirect port that overlap, the flow
\* whose listener cannot bind never opens a browser and never issues a token
\* exchange, and the flow that holds the port is not affected by it.
C40_PortHolderUnaffected ==
  /\ [](\A r \in Resolvers :
          ib[r].listener = "failed" => ~ib[r].browser /\ ib[r].exchanges = 0)
  /\ [][\A r \in Resolvers :
          C40BindFails(r) =>
            \A o \in Resolvers \ {r} :
              pc'[o] = pc[o] /\ ib'[o] = ib[o] /\ result'[o] = result[o]]_vars

====
